---- MODULE Spec2Model ----
(***************************************************************************)
(* A model of MemNinja-rs: the hoodmem scanner (crates/hoodmem/src/        *)
(* scanner.rs) and the memninja core and controller                        *)
(* (crates/memninja/src/memninja_core/mod.rs).                             *)
(*                                                                         *)
(* Option<T> is modelled as a sequence of length 0 (None) or 1 (Some(x)).  *)
(* Vec<T> is a sequence; byte offsets are 0-based as in the code, so the   *)
(* byte at offset o of a buffer b is b[o + 1].                             *)
(***************************************************************************)
EXTENDS Integers, Sequences, FiniteSets, TLC

VARIABLES
    mem,    \* remote process memory: address -> byte
    maps,   \* the regions get_writable_regions() currently enumerates
    core,   \* struct Core: process, scanner, attach_status, scan_status
    last,   \* history: the last operation, its result and its inputs
    hist,   \* history: the scan passes since the last new_scan (HistSpec); the
            \* numbers of the commands executed, in order (CtlSpec)
    ctl,    \* struct CoreController: core_tx, core_thread, running
    chans,  \* the crossbeam channels start() has created, in order
    threads,\* the worker threads start() has spawned; thread i receives on
            \* channel i
    mutex,  \* the Mutex<Core>: the thread holding it, and whether it is poisoned
    caller  \* the front-end thread that owns the CoreController

cvars == <<ctl, chans, threads, mutex, caller>>

vars == <<mem, maps, core, last, hist, cvars>>

None == <<>>
Some(x) == <<x>>
IsSome(o) == Len(o) = 1
IsNone(o) == Len(o) = 0
Unwrap(o) == o[1]

\* ------------------------------------------------------------------------
\* The remote process (trait Process = MemoryRead + ScannableMemoryRegions)
\* ------------------------------------------------------------------------

\* struct MemoryRegion { base_address, size }
MemoryRegion(base, size) == [base_address |-> base, size |-> size]

\* The regions the modelled process can map.
Regions == {MemoryRegion(16, 3), MemoryRegion(32, 2)}

Addrs == UNION {{r.base_address + i : i \in 0..(r.size - 1)} : r \in Regions}

\* The byte values the modelled process stores.
ByteVals == {0, 1}

\* The addresses the modelled process writes; the others keep the value 0.
Written == {16, 17, 18, 32}

\* MemoryRead::read_memory_bytes on success: exactly bytes_to_read bytes.
read_memory_bytes(m, address, bytes_to_read) ==
    [i \in 1..bytes_to_read |-> m[address + i - 1]]

\* ------------------------------------------------------------------------
\* Numeric types and read_from_buffer
\* ------------------------------------------------------------------------

MemTypes == {"U8", "U16"}

\* std::mem::size_of::<T>()
size_of(ty) ==
    CASE ty \in {"U8", "I8"} -> 1
      [] ty \in {"U16", "I16"} -> 2
      [] ty \in {"U32", "I32", "F32"} -> 4
      [] ty \in {"U64", "I64", "F64"} -> 8

\* number of values of the unsigned type ty
Modulus(ty) == CASE ty = "U8" -> 256 [] ty = "U16" -> 65536

RECURSIVE LittleEndian(_, _, _)
LittleEndian(buffer, offset, n) ==
    IF n = 0 THEN 0
    ELSE buffer[offset + 1] + 256 * LittleEndian(buffer, offset + 1, n - 1)

\* util::read_from_buffer::<T>: unaligned native-endian read of T at offset.
\* The assert!(offset + size_of::<T>() <= buffer.len()) is the index bound
\* of the sequence.
read_from_buffer(buffer, offset, ty) == LittleEndian(buffer, offset, size_of(ty))

\* ------------------------------------------------------------------------
\* ScanFilter<T>
\* ------------------------------------------------------------------------

Filter(k, a, b) == [k |-> k, a |-> a, b |-> b]
Exact(v) == Filter("Exact", v, 0)
Approximate(v, t) == Filter("Approximate", v, t)
Increased == Filter("Increased", 0, 0)
Decreased == Filter("Decreased", 0, 0)
IncreasedBy(d) == Filter("IncreasedBy", d, 0)
DecreasedBy(d) == Filter("DecreasedBy", d, 0)
IncreasedByAtLeast(d) == Filter("IncreasedByAtLeast", d, 0)
IncreasedByAtMost(d) == Filter("IncreasedByAtMost", d, 0)
DecreasedByAtLeast(d) == Filter("DecreasedByAtLeast", d, 0)
DecreasedByAtMost(d) == Filter("DecreasedByAtMost", d, 0)
Changed == Filter("Changed", 0, 0)
Unchanged == Filter("Unchanged", 0, 0)
ChangedByAtLeast(d) == Filter("ChangedByAtLeast", d, 0)
ChangedByAtMost(d) == Filter("ChangedByAtMost", d, 0)
UnchangedByAtLeast(d) == Filter("UnchangedByAtLeast", d, 0)
UnchangedByAtMost(d) == Filter("UnchangedByAtMost", d, 0)
UnknownFilter == Filter("Unknown", 0, 0)

\* T's + and - on an unsigned type (wrapping, as in a release build)
Add(x, y, ty) == (x + y) % Modulus(ty)
Sub(x, y, ty) == (x - y) % Modulus(ty)

\* the difference taken as a - b whatever the order
AbsDiff_Unordered(a, b, ty) == Sub(a, b, ty)

\* if a > b { a - b } else { b - a }
AbsDiff(a, b, ty) == IF a > b THEN Sub(a, b, ty) ELSE Sub(b, a, ty)

\* ScanFilter::matches(&self, new_t, old_t)
matches(f, new_t, old_t, ty) ==
    CASE f.k = "Exact" -> f.a = new_t
      [] f.k = "Approximate" -> AbsDiff(new_t, f.a, ty) <= f.b
      [] f.k = "Increased" -> new_t > old_t
      [] f.k = "Decreased" -> new_t < old_t
      [] f.k = "IncreasedBy" -> new_t = Add(old_t, f.a, ty)
      [] f.k = "DecreasedBy" -> new_t = Sub(old_t, f.a, ty)
      [] f.k = "IncreasedByAtLeast" -> new_t >= old_t /\ Sub(new_t, old_t, ty) >= f.a
      [] f.k = "IncreasedByAtMost" -> new_t >= old_t /\ Sub(new_t, old_t, ty) <= f.a
      [] f.k = "DecreasedByAtLeast" -> new_t <= old_t /\ Sub(old_t, new_t, ty) >= f.a
      [] f.k = "DecreasedByAtMost" -> new_t <= old_t /\ Sub(old_t, new_t, ty) <= f.a
      [] f.k = "Changed" -> new_t # old_t
      [] f.k = "Unchanged" -> new_t = old_t
      [] f.k = "ChangedByAtLeast" -> AbsDiff(new_t, old_t, ty) >= f.a
      [] f.k = "ChangedByAtMost" -> AbsDiff(new_t, old_t, ty) <= f.a
      [] f.k = "UnchangedByAtLeast" -> AbsDiff(new_t, old_t, ty) <= f.a
      [] f.k = "UnchangedByAtMost" -> AbsDiff(new_t, old_t, ty) <= f.a
      [] f.k = "Unknown" -> TRUE

\* ------------------------------------------------------------------------
\* RegionResults
\* ------------------------------------------------------------------------

\* RegionResults::new
RegionResults_new(region) ==
    [region |-> region, hit_offsets |-> None, buffer |-> None]

\* the elements of 0..(n - 1), descending
RangeSeq_Desc(n) == [i \in 1..n |-> n - i]

\* the Vec of the elements of 0..(n - 1), ascending (a Range<usize>, collected)
RangeSeq(n) == [i \in 1..n |-> i - 1]

\* scan_range = 0..(self.region.size - size_of::<T>()): the end is exclusive
scan_range(region, ty) == RangeSeq(region.size - size_of(ty))

\* First scan of a region (self.buffer.is_none()): only Exact filters.
FirstHits(self, region_buf, ty, filter) ==
    IF filter.k = "Exact"
    THEN LET Keep(offset) ==
                 /\ offset + size_of(ty) <= Len(region_buf)
                 /\ matches(filter, read_from_buffer(region_buf, offset, ty),
                            read_from_buffer(region_buf, offset, ty), ty)
         IN  Some(SelectSeq(scan_range(self.region, ty), Keep))
    ELSE self.hit_offsets

\* NextHits with the existing hits ignored: every pass scans the whole range
NextHits_Rescan(self, region_buf, ty, filter) ==
    LET Keep(offset) ==
            /\ offset + size_of(ty) <= Len(region_buf)
            /\ matches(filter, read_from_buffer(region_buf, offset, ty),
                       read_from_buffer(Unwrap(self.buffer), offset, ty), ty)
    IN  Some(SelectSeq(scan_range(self.region, ty), Keep))

\* Subsequent scans (self.buffer is Some): filter the existing hits, or the
\* whole scan range when there are none yet.
NextHits(self, region_buf, ty, filter) ==
    LET Keep(offset) ==
            /\ offset + size_of(ty) <= Len(region_buf)
            /\ matches(filter, read_from_buffer(region_buf, offset, ty),
                       read_from_buffer(Unwrap(self.buffer), offset, ty), ty)
    IN  IF IsSome(self.hit_offsets)
        THEN Some(SelectSeq(Unwrap(self.hit_offsets), Keep))
        ELSE Some(SelectSeq(scan_range(self.region, ty), Keep))

\* KeepBuffer with the snapshot kept whatever the hits are
KeepBuffer_Always(hit_offsets, region_buf) == Some(region_buf)

\* Only keep track of previous values if we have hits, or haven't scanned yet
KeepBuffer(hit_offsets, region_buf) ==
    IF IsNone(hit_offsets) \/ Len(Unwrap(hit_offsets)) > 0
    THEN Some(region_buf)
    ELSE None

\* update_results with the first snapshot never replaced by the new bytes
update_results_Stale(self, region_buf, ty, filter) ==
    LET hits == IF IsNone(self.buffer)
                THEN FirstHits(self, region_buf, ty, filter)
                ELSE NextHits(self, region_buf, ty, filter)
        kept == KeepBuffer(hits, region_buf)
    IN  [region |-> self.region,
         hit_offsets |-> hits,
         buffer |-> IF IsSome(self.buffer) /\ IsSome(kept)
                    THEN self.buffer ELSE kept]

\* RegionResults::update_results::<T>(region_buf, filter)
update_results(self, region_buf, ty, filter) ==
    LET hits == IF IsNone(self.buffer)
                THEN FirstHits(self, region_buf, ty, filter)
                ELSE NextHits(self, region_buf, ty, filter)
    IN  [region |-> self.region,
         hit_offsets |-> hits,
         buffer |-> KeepBuffer(hits, region_buf)]

\* get_results with the offset in place of the address
RegionResults_get_results_Offset(self, ty) ==
    IF IsSome(self.hit_offsets) /\ IsSome(self.buffer)
    THEN LET buffer == Unwrap(self.buffer)
             InBuffer(offset) == offset + size_of(ty) <= Len(buffer)
             offsets == SelectSeq(Unwrap(self.hit_offsets), InBuffer)
         IN  Some([i \in 1..Len(offsets) |->
                     <<offsets[i], read_from_buffer(buffer, offsets[i], ty)>>])
    ELSE None

\* RegionResults::get_results::<T>: Some(Vec<(address, value)>) or None
RegionResults_get_results(self, ty) ==
    IF IsSome(self.hit_offsets) /\ IsSome(self.buffer)
    THEN LET buffer == Unwrap(self.buffer)
             InBuffer(offset) == offset + size_of(ty) <= Len(buffer)
             offsets == SelectSeq(Unwrap(self.hit_offsets), InBuffer)
         IN  Some([i \in 1..Len(offsets) |->
                     <<offsets[i] + self.region.base_address,
                       read_from_buffer(buffer, offsets[i], ty)>>])
    ELSE None

\* ------------------------------------------------------------------------
\* Scanner
\* ------------------------------------------------------------------------

\* Scanner::new(process)
Scanner_new(process) ==
    [process |-> process, results |-> <<>>, is_new_scan |-> TRUE]

\* new_scan with the region states kept
new_scan_KeepResults(self) ==
    [self EXCEPT !.is_new_scan = TRUE]

\* Scanner::new_scan
new_scan(self) ==
    [self EXCEPT !.results = <<>>, !.is_new_scan = TRUE]

\* the first-scan branch with a fresh RegionResults inserted for a region
\* whose read fails as well
ScanNew_InsertAll(self, regions, failed, m, ty, filter) ==
    [r \in (DOMAIN self.results) \cup regions |->
       IF r \in regions \ failed
       THEN update_results(RegionResults_new(r),
                           read_memory_bytes(m, r.base_address, r.size),
                           ty, filter)
       ELSE IF r \in regions THEN RegionResults_new(r)
       ELSE self.results[r]]

\* The first-scan branch of Scanner::scan: every enumerated region whose read
\* succeeds gets a fresh RegionResults, updated with the bytes read.
ScanNew(self, regions, failed, m, ty, filter) ==
    LET read == {r \in regions : r \notin failed}
    IN  [r \in (DOMAIN self.results) \cup read |->
           IF r \in read
           THEN update_results(RegionResults_new(r),
                               read_memory_bytes(m, r.base_address, r.size),
                               ty, filter)
           ELSE self.results[r]]

\* RefineReads with the regions whose hit vector is empty read as well
RefineReads_Empty(self, regions) ==
    {r \in regions : r \in DOMAIN self.results}

\* The regions for which the refinement branch calls read_memory_bytes: the
\* enumerated regions that are keys of the map and whose hit vector is None
\* or not empty.
RefineReads(self, regions) ==
    {r \in regions :
        /\ r \in DOMAIN self.results
        /\ \/ IsNone(self.results[r].hit_offsets)
           \/ Len(Unwrap(self.results[r].hit_offsets)) > 0}

\* The regions for which Scanner::scan calls read_memory_bytes.
ReadRegions(self, regions) ==
    IF self.is_new_scan THEN regions ELSE RefineReads(self, regions)

\* does the refinement branch read (and update) the tracked region r?
Rescanned(self, regions, failed, r) ==
    r \in RefineReads(self, regions) /\ r \notin failed

\* ScanRefine with the enumerated regions that are not tracked added as fresh
ScanRefine_AddNew(self, regions, failed, m, ty, filter) ==
    [r \in (DOMAIN self.results) \cup (regions \ failed) |->
       IF r \notin DOMAIN self.results
       THEN update_results(RegionResults_new(r),
                           read_memory_bytes(m, r.base_address, r.size),
                           ty, filter)
       ELSE IF Rescanned(self, regions, failed, r)
            THEN update_results(self.results[r],
                                read_memory_bytes(m, r.base_address, r.size),
                                ty, filter)
            ELSE self.results[r]]

\* ScanRefine with the results of a region cleared when its read fails
ScanRefine_ClearFailed(self, regions, failed, m, ty, filter) ==
    [r \in DOMAIN self.results |->
       IF Rescanned(self, regions, failed, r)
       THEN update_results(self.results[r],
                           read_memory_bytes(m, r.base_address, r.size),
                           ty, filter)
       ELSE IF r \in failed
            THEN RegionResults_new(r)
            ELSE self.results[r]]

\* The refinement branch of Scanner::scan: filter existing results.
ScanRefine(self, regions, failed, m, ty, filter) ==
    [r \in DOMAIN self.results |->
       IF Rescanned(self, regions, failed, r)
       THEN update_results(self.results[r],
                           read_memory_bytes(m, r.base_address, r.size),
                           ty, filter)
       ELSE self.results[r]]

\* scan with is_new_scan left as it is
scan_StillNew(self, regions, failed, m, ty, filter) ==
    [self EXCEPT
       !.results = IF self.is_new_scan
                   THEN ScanNew(self, regions, failed, m, ty, filter)
                   ELSE ScanRefine(self, regions, failed, m, ty, filter)]

\* Scanner::scan::<T>(filter); regions is what get_writable_regions returns,
\* failed the regions whose read_memory_bytes returns Err, m the memory.
scan(self, regions, failed, m, ty, filter) ==
    [self EXCEPT
       !.results = IF self.is_new_scan
                   THEN ScanNew(self, regions, failed, m, ty, filter)
                   ELSE ScanRefine(self, regions, failed, m, ty, filter),
       !.is_new_scan = FALSE]

\* the sum of the lengths of the hit vectors of the regions of S
RECURSIVE SumHits(_, _)
SumHits(results, S) ==
    IF S = {} THEN 0
    ELSE LET r == CHOOSE x \in S : TRUE
         IN  Len(Unwrap(results[r].hit_offsets)) + SumHits(results, S \ {r})

\* count_results with Some(0) where no hit vector is present
count_results_Zero(self) ==
    IF self.is_new_scan THEN None
    ELSE LET present == {r \in DOMAIN self.results :
                           IsSome(self.results[r].hit_offsets)}
         IN  Some(SumHits(self.results, present))

\* Scanner::count_results: Option<usize>
count_results(self) ==
    IF self.is_new_scan THEN None
    ELSE LET present == {r \in DOMAIN self.results :
                           IsSome(self.results[r].hit_offsets)}
         IN  IF present = {} THEN None
             ELSE Some(SumHits(self.results, present))

\* The orders in which self.results.values() can yield the regions of S: a
\* HashMap iterates in an order of its own, the same for an unchanged map.
RECURSIVE Orders(_)
Orders(S) ==
    IF S = {} THEN {<<>>}
    ELSE UNION {{<<r>> \o t : t \in Orders(S \ {r})} : r \in S}

\* flat_map over the regions in the given order of the results that are Some
RECURSIVE FlatResults(_, _, _)
FlatResults(results, ty, order) ==
    IF order = <<>> THEN <<>>
    ELSE LET got == RegionResults_get_results(results[Head(order)], ty)
         IN  (IF IsSome(got) THEN Unwrap(got) ELSE <<>>)
             \o FlatResults(results, ty, Tail(order))

\* Scanner::get_results::<T>, the map iterated in the given order
Scanner_get_results(self, ty, order) == FlatResults(self.results, ty, order)

\* ------------------------------------------------------------------------
\* Core (memninja_core/mod.rs) and its commands
\* ------------------------------------------------------------------------

Detached == <<"Detached">>
Attached(target) == <<"Attached", target>>
Ready == <<"Ready">>
Scanning == <<"Scanning">>
Done(n) == <<"Done", n>>
Failed(msg) == <<"Failed", msg>>

\* AttachTarget::Process(pid), ::Window(name), ::Other(tag)
AttachTargets == {<<"Process", 7>>, <<"Window", "game">>, <<"Other", "x">>}

\* GenericScanFilter: a ScanFilter<T> tagged with its numeric type
GenericScanFilter(ty, filter) == [ty |-> ty, filter |-> filter]

NoFilter == GenericScanFilter("U8", UnknownFilter)
Command(c, target, filter) == [c |-> c, target |-> target, filter |-> filter]
CmdAttach(target) == Command("Attach", target, NoFilter)
CmdDetach == Command("Detach", <<>>, NoFilter)
CmdUnknown == Command("Unknown", <<>>, NoFilter)
CmdStop == Command("Stop", <<>>, NoFilter)
CmdNewScan == Command("NewScan", <<>>, NoFilter)
CmdScan(f) == Command("Scan", <<>>, f)

\* Core::default()
Core_default ==
    [process |-> None, scanner |-> None,
     attach_status |-> Detached, scan_status |-> Ready]

Returned(self, res) == [core |-> self, res |-> res]

\* Core::attach which, on a Core that is already attached, attaches again
Core_attach_Again(self, target, outcome) ==
    IF target[1] \in {"Process", "Window"} /\ outcome # "err"
    THEN Returned([self EXCEPT
                     !.process = Some(target),
                     !.attach_status = Attached(target),
                     !.scanner = Some(Scanner_new(target))], "Ok")
    ELSE Returned(self, "Err")

\* Core::attach(target); outcome is what hoodmem::attach_external or
\* attach_external_by_name returns for the target ("ok" or "err").
Core_attach(self, target, outcome) ==
    IF self.attach_status = Detached
    THEN IF target[1] \in {"Process", "Window"}
         THEN IF outcome = "err"
              THEN Returned(self, "Err")
              ELSE Returned([self EXCEPT
                               !.process = Some(target),
                               !.attach_status = Attached(target),
                               !.scanner = Some(Scanner_new(target))], "Ok")
         ELSE Returned([self EXCEPT
                          !.scanner = IF IsSome(self.process)
                                      THEN Some(Scanner_new(Unwrap(self.process)))
                                      ELSE self.scanner], "Ok")
    ELSE Returned(self, "Err")

\* Core::detach
Core_detach(self) ==
    [self EXCEPT !.process = None, !.scanner = None, !.attach_status = Detached]

\* GenericScanFilter::scan: dispatch on the numeric type
GenericScanFilter_scan(f, scanner, regions, failed, m) ==
    scan(scanner, regions, failed, m, f.ty, f.filter)

\* core.scan_status = ScanStatus::Scanning, the first statement of the Scan arm
ScanStarted(self) == [self EXCEPT !.scan_status = Scanning]

\* the Scan arm with the status left as it is once the scanner has returned
ExecuteScan_NoDone(self, f, regions, failed, m) ==
    LET started == ScanStarted(self)
    IN  IF IsSome(started.scanner)
        THEN Returned([started EXCEPT
                         !.scanner = Some(GenericScanFilter_scan(
                                        f, Unwrap(started.scanner),
                                        regions, failed, m))], "Ok")
        ELSE Returned(started, "Ok")

\* the CoreCommand::Scan arm of execute; Scanner::scan returns Ok(()) on every
\* path, so the Failed(msg) arm of the match is never taken
ExecuteScan(self, f, regions, failed, m) ==
    LET started == ScanStarted(self)
    IN  IF IsSome(started.scanner)
        THEN LET scanner == GenericScanFilter_scan(f, Unwrap(started.scanner),
                                                   regions, failed, m)
                 counted == count_results(scanner)
                 num_results == IF IsSome(counted) THEN Unwrap(counted) ELSE 0
             IN  Returned([started EXCEPT !.scanner = Some(scanner),
                                          !.scan_status = Done(num_results)],
                          "Ok")
        ELSE Returned(started, "Ok")

\* the CoreCommand::NewScan arm of execute
ExecuteNewScan(self) ==
    IF IsSome(self.scanner)
    THEN Returned([self EXCEPT !.scanner = Some(new_scan(Unwrap(self.scanner)))], "Ok")
    ELSE Returned(self, "Ok")

\* CoreCommand::execute(&self, core)
execute(cmd, self, outcome, regions, failed, m) ==
    CASE cmd.c = "Attach" -> Core_attach(self, cmd.target, outcome)
      [] cmd.c = "Detach" -> Returned(Core_detach(self), "Ok")
      [] cmd.c = "Stop" -> Returned(self, "Ok")
      [] cmd.c = "Unknown" -> Returned(self, "Ok")
      [] cmd.c = "NewScan" -> ExecuteNewScan(self)
      [] cmd.c = "Scan" -> ExecuteScan(self, cmd.filter, regions, failed, m)

\* ------------------------------------------------------------------------
\* Spec: commands executed on one Core, against a process whose memory
\* changes between them
\* ------------------------------------------------------------------------

\* The filters the model's front end sends.
ScanFilters ==
    {GenericScanFilter("U8", f) :
        f \in {Exact(1), Approximate(1, 0), UnknownFilter, Increased,
               Decreased, Changed, Unchanged}}
    \cup
    {GenericScanFilter("U16", f) :
        f \in {Exact(257), UnknownFilter, Decreased, Unchanged}}

\* first: did the operation find a scanner whose is_new_scan was set?
Last(op, res, failed, first) ==
    [c |-> op.c, target |-> op.target, res |-> res, failed |-> failed,
     first |-> first]

IsFirst(self) == IsSome(self.scanner) /\ Unwrap(self.scanner).is_new_scan

\* CoreController::default(), before any thread exists
ControllerInit ==
    /\ ctl = [core_tx |-> None, core_thread |-> None, running |-> FALSE]
    /\ chans = <<>>
    /\ threads = <<>>
    /\ mutex = [holder |-> 0, poisoned |-> FALSE]
    /\ caller = [pc |-> "idle", thread |-> 0, stop |-> None, sent |-> 0,
                 call |-> "", got |-> None, acked |-> {}]

Init ==
    /\ ControllerInit
    /\ mem \in [Addrs -> ByteVals]
    /\ \A a \in Addrs \ Written : mem[a] = 0
    /\ maps = Regions
    /\ core = Core_default
    /\ last = Last(Command("Init", <<>>, NoFilter), "Ok", {}, FALSE)
    /\ hist = <<>>

\* one command executed to completion
Run(cmd, outcome, failed) ==
    LET r == execute(cmd, core, outcome, maps, failed, mem)
    IN  /\ core' = r.core
        /\ last' = Last(cmd, r.res, failed, IsFirst(core))
        /\ UNCHANGED <<mem, maps>>

\* the remote process writes one byte of its memory
Write(a, b) ==
    /\ mem[a] # b
    /\ mem' = [mem EXCEPT ![a] = b]
    /\ last' = Last(Command("Mutate", <<>>, NoFilter), "Ok", {}, FALSE)
    /\ UNCHANGED <<maps, core>>

\* Spec attaches by pid (or tries Other); attaching by window name reaches the
\* same Core states with another target recorded.
Attach ==
    /\ \E target \in {<<"Process", 7>>, <<"Other", "x">>},
          outcome \in {"ok", "err"} :
           Run(CmdAttach(target), outcome, {})
    /\ UNCHANGED <<hist, cvars>>

Detach == Run(CmdDetach, "ok", {}) /\ UNCHANGED <<hist, cvars>>

NewScan == Run(CmdNewScan, "ok", {}) /\ UNCHANGED <<hist, cvars>>

Scan ==
    /\ \E f \in ScanFilters, failed \in SUBSET maps :
           Run(CmdScan(f), "ok", failed)
    /\ UNCHANGED <<hist, cvars>>

Other ==
    /\ \E cmd \in {CmdStop, CmdUnknown} : Run(cmd, "ok", {})
    /\ UNCHANGED <<hist, cvars>>

Mutate ==
    /\ \E a \in Written, b \in ByteVals : Write(a, b)
    /\ UNCHANGED <<hist, cvars>>

Next == Attach \/ Detach \/ NewScan \/ Scan \/ Other \/ Mutate

Spec == Init /\ [][Next]_vars

\* ------------------------------------------------------------------------
\* Properties of Spec
\* ------------------------------------------------------------------------

SeqSet(s) == {s[i] : i \in 1..Len(s)}

ResultsOf(c) == Unwrap(c.scanner).results
Tracked(c) == IF IsSome(c.scanner) THEN DOMAIN ResultsOf(c) ELSE {}
HitsOf(c, r) == ResultsOf(c)[r].hit_offsets
BufferOf(c, r) == ResultsOf(c)[r].buffer

\* the bytes a successful read of region r returns now
BytesOf(r) == read_memory_bytes(mem, r.base_address, r.size)

\* this step executes a Scan command on a Core that has a scanner; the reads
\* that fail in it are those of the regions of last'.failed
ScanPass == last'.c = "Scan" /\ IsSome(core.scanner)

\* ... and the command is Scan(f)
ScanStep(f) ==
    /\ ScanPass
    /\ core' = ExecuteScan(core, f, maps, last'.failed, mem).core

\* the regions a pass with these failed reads reads and updates
Updated(failed) ==
    IF IsFirst(core)
    THEN maps \ failed
    ELSE {r \in Tracked(core) : Rescanned(Unwrap(core.scanner), maps, failed, r)}

\* the offsets o with o + W <= len(B) at which B holds the value v
ExactOffsets(B, ty, v) ==
    {o \in 0..Len(B) :
        o + size_of(ty) <= Len(B) /\ read_from_buffer(B, o, ty) = v}

\* C1 (as claimed): after new_scan and scan(Exact(v)) of width W, every region
\* whose read succeeded has exactly the hits {o : o + W <= snapshot length and
\* the value at o equals v}, the last offset length - W included.
C1_FirstExactScanHits ==
    [][\A f \in ScanFilters :
          (ScanStep(f) /\ IsFirst(core) /\ f.filter.k = "Exact")
          => \A r \in maps \ last'.failed :
                /\ r \in Tracked(core')
                /\ IsSome(HitsOf(core', r))
                /\ SeqSet(Unwrap(HitsOf(core', r)))
                     = ExactOffsets(BytesOf(r), f.ty, f.filter.a)]_vars

\* is the hit set b a subset of the hit set a, None being every offset?
HitsSubset(b, a) ==
    \/ IsNone(a)
    \/ IsSome(b) /\ SeqSet(Unwrap(b)) \subseteq SeqSet(Unwrap(a))

\* C2: a scan pass that is not the first since new_scan leaves, in every
\* region tracked before and after it, a hit set that is a subset of the hit
\* set before the pass (None counting as every offset).
C2_MonotoneRefinement ==
    [][(last'.c = "Scan" /\ ~last'.first)
       => \A r \in Tracked(core) \cap Tracked(core') :
             HitsSubset(HitsOf(core', r), HitsOf(core, r))]_vars

\* C2's case: a refinement pass has read a region that had hits and kept some
C2_Witness ==
    /\ last.c = "Scan" /\ ~last.first /\ last.failed = {}
    /\ \E r \in Tracked(core) :
          IsSome(HitsOf(core, r)) /\ Len(Unwrap(HitsOf(core, r))) > 0

\* C4 (as claimed): the first scan(Unknown) after new_scan leaves every
\* successfully read region with a present hit set holding every offset of
\* [0, snapshot_len - W].
C4_FirstUnknownScanHits ==
    [][\A f \in ScanFilters :
          (ScanStep(f) /\ IsFirst(core) /\ f.filter.k = "Unknown")
          => \A r \in maps \ last'.failed :
                /\ r \in Tracked(core')
                /\ IsSome(HitsOf(core', r))
                /\ SeqSet(Unwrap(HitsOf(core', r)))
                     = 0..(Len(BytesOf(r)) - size_of(f.ty))]_vars

\* C5: after a pass that read region r successfully (bytes B) and updated it,
\* r's snapshot is B whenever r's hit set is non-empty or still absent.
C5_SnapshotFreshness ==
    [][ScanPass
       => \A r \in Updated(last'.failed) :
             (IsNone(HitsOf(core', r)) \/ Len(Unwrap(HitsOf(core', r))) > 0)
             => BufferOf(core', r) = Some(BytesOf(r))]_vars

\* C5's case: a refinement pass has just re-read a region that keeps hits
C5_Witness ==
    /\ last.c = "Scan" /\ ~last.first /\ last.failed = {}
    /\ \E r \in Tracked(core) :
          /\ IsSome(HitsOf(core, r)) /\ Len(Unwrap(HitsOf(core, r))) > 0
          /\ BufferOf(core, r) = Some(BytesOf(r))

\* C6: every tracked region whose hit set is present and empty has no snapshot.
C6_EmptyHitsReleaseSnapshot ==
    \A r \in Tracked(core) :
        HitsOf(core, r) = Some(<<>>) => IsNone(BufferOf(core, r))

\* C6's case: a pass has left a region with a present, empty hit set
C6_Witness ==
    /\ last.c = "Scan"
    /\ \E r \in Tracked(core) : HitsOf(core, r) = Some(<<>>)

\* the hits count_results sums: those of the regions with a present hit set
TotalHits(c) ==
    SumHits(ResultsOf(c), {r \in Tracked(c) : IsSome(HitsOf(c, r))})

\* C7: in a refinement pass, a tracked region whose read fails keeps its hits
\* and snapshot, the other regions are still updated, the command succeeds,
\* and the status is Done(count), the count including the region's hits.
C7_ReadFailureInRefinement ==
    [][(ScanPass /\ ~IsFirst(core))
       => /\ \A r \in last'.failed \cap Tracked(core) :
                r \in Tracked(core') /\ ResultsOf(core')[r] = ResultsOf(core)[r]
          /\ \A r \in Updated(last'.failed) :
                \/ BufferOf(core', r) = Some(BytesOf(r))
                \/ HitsOf(core', r) = Some(<<>>)
          /\ last'.res = "Ok"
          /\ ~Unwrap(core'.scanner).is_new_scan
          /\ core'.scan_status = Done(TotalHits(core'))]_vars

\* C7's case: a refinement pass in which the read of a region with hits failed
\* while another region was read
C7_Witness ==
    /\ last.c = "Scan" /\ ~last.first
    /\ \E r \in last.failed \cap Tracked(core) :
          /\ IsSome(HitsOf(core, r)) /\ Len(Unwrap(HitsOf(core, r))) > 0
          /\ core.scan_status[1] = "Done" /\ core.scan_status[2] > 0
    /\ \E r \in Tracked(core) \ last.failed : IsSome(BufferOf(core, r))

\* C10 (as claimed): a Scan command on a Core without a scanner returns an
\* error and changes nothing, so scan_status keeps its value.
C10_ScanWhileDetached ==
    [][(last'.c = "Scan" /\ IsNone(core.scanner))
       => (core' = core /\ last'.res = "Err")]_vars

\* the hits of a Core counted one by one: the pairs (region, index into the
\* region's hit vector) over the regions whose hit vector is present
HitCount(c) ==
    Cardinality(UNION {{<<r, i>> : i \in 1..Len(Unwrap(HitsOf(c, r)))} :
                          r \in {x \in Tracked(c) : IsSome(HitsOf(c, x))}})

\* C11: a Scan command executed on an attached Core ends with scan_status
\* Done(n), n the number of hits in the present hit sets of all tracked
\* regions after the pass; the Scanning set at its start does not outlast it.
C11_ScanStatusDone ==
    [][(last'.c = "Scan" /\ core.attach_status # Detached)
       => /\ core'.scan_status = Done(HitCount(core'))
          /\ core'.scan_status # Scanning
          /\ last'.res = "Ok"]_vars

\* C11's case: a scan of an attached Core has ended with hits in two regions
C11_Witness ==
    /\ last.c = "Scan" /\ core.attach_status # Detached
    /\ core.scan_status[1] = "Done" /\ core.scan_status[2] >= 2
    /\ \A r \in maps : r \in Tracked(core) /\ HitsOf(core, r) # Some(<<>>)
                         /\ IsSome(HitsOf(core, r))

\* C12: an Attach command executed while attach_status is Attached returns an
\* error and leaves process, scanner, attach_status and scan_status unchanged.
C12_AttachWhileAttached ==
    [][(last'.c = "Attach" /\ core.attach_status # Detached)
       => (last'.res = "Err" /\ core' = core)]_vars

\* C12's case: an Attach was refused on an attached Core whose scanner already
\* tracks regions
C12_Witness ==
    /\ last.c = "Attach" /\ last.res = "Err"
    /\ core.attach_status # Detached
    /\ Tracked(core) # {} /\ ~Unwrap(core.scanner).is_new_scan

\* C13 (as claimed): an Attach with an AttachTarget::Other target returns an
\* error and leaves the Core Detached, without process and without Scanner.
C13_AttachOtherFails ==
    [][(last'.c = "Attach" /\ last'.target[1] = "Other"
        /\ core.attach_status = Detached)
       => /\ last'.res = "Err"
          /\ core'.attach_status = Detached
          /\ IsNone(core'.process) /\ IsNone(core'.scanner)]_vars

\* C14 (as claimed): a NewScan command executed on an attached Core resets the
\* scanner and sets scan_status to Ready, whatever it was.
C14_NewScanSetsReady ==
    [][(last'.c = "NewScan" /\ core.attach_status # Detached)
       => /\ core'.scanner = Some(new_scan(Unwrap(core.scanner)))
          /\ core'.scan_status = Ready]_vars

\* C19 (as claimed): the Core holds a Scanner iff it holds a process iff it is
\* Attached; an Attach that returns Ok leaves a fresh Scanner (no tracked
\* region, is_new_scan set); Detach leaves neither and sets Detached.
C19_ScannerIffAttached ==
    [][/\ IsSome(core'.scanner) <=> IsSome(core'.process)
       /\ IsSome(core'.process) <=> core'.attach_status # Detached
       /\ (last'.c = "Attach" /\ last'.res = "Ok")
          => /\ core'.attach_status = Attached(last'.target)
             /\ IsSome(core'.scanner)
             /\ Unwrap(core'.scanner).results = <<>>
             /\ Unwrap(core'.scanner).is_new_scan
       /\ last'.c = "Detach"
          => /\ IsNone(core'.scanner) /\ IsNone(core'.process)
             /\ core'.attach_status = Detached]_vars

\* does the filter look at the new value only?
ValueOnly(filter) == filter.k \in {"Exact", "Approximate", "Unknown"}

\* the offsets o with o + W <= min(len(new), len(old)) at which the filter
\* matches the value of new against the value of old
MatchingOffsets(new, old, ty, filter) ==
    {o \in 0..Len(new) :
        /\ o + size_of(ty) <= Len(new)
        /\ o + size_of(ty) <= Len(old)
        /\ matches(filter, read_from_buffer(new, o, ty),
                   read_from_buffer(old, o, ty), ty)}

\* C33 (as claimed): with a filter that compares with the previous value, the
\* first pass records the bytes read of every region as its snapshot and
\* leaves its hits absent, and a pass over a region with a snapshot and absent
\* hits leaves as hits every offset at which the filter matches the new value
\* against the snapshot's.
C33_DiffFilterBaseline ==
    [][\A f \in {g \in ScanFilters : ~ValueOnly(g.filter)} :
          ScanStep(f)
          => \A r \in Updated(last'.failed) :
                /\ IsFirst(core)
                   => /\ r \in Tracked(core')
                      /\ BufferOf(core', r) = Some(BytesOf(r))
                      /\ IsNone(HitsOf(core', r))
                /\ (/\ ~IsFirst(core)
                    /\ IsNone(HitsOf(core, r))
                    /\ IsSome(BufferOf(core, r)))
                   => /\ IsSome(HitsOf(core', r))
                      /\ SeqSet(Unwrap(HitsOf(core', r)))
                           = MatchingOffsets(BytesOf(r),
                                             Unwrap(BufferOf(core, r)),
                                             f.ty, f.filter)]_vars

\* ------------------------------------------------------------------------
\* HistSpec: Spec's commands with the passes since the last new_scan recorded
\* ------------------------------------------------------------------------

\* the passes recorded per session
MaxPasses == 2

\* The filters the front end sends in HistSpec.
HistFilters ==
    {GenericScanFilter("U8", f) :
        f \in {Exact(1), Approximate(1, 0), UnknownFilter, Decreased,
               Unchanged}}
    \cup {GenericScanFilter("U16", Exact(257))}

\* The addresses the process writes in HistSpec.
HistWritten == {16, 17}

HistInit ==
    /\ ControllerInit
    /\ mem = [a \in Addrs |-> IF a \in {16, 17} THEN 1 ELSE 0]
    /\ maps = Regions
    /\ core = Core_default
    /\ last = Last(Command("Init", <<>>, NoFilter), "Ok", {}, FALSE)
    /\ hist = <<>>

HistAttach ==
    /\ Run(CmdAttach(<<"Process", 7>>), "ok", {})
    /\ hist' = IF core.attach_status = Detached THEN <<>> ELSE hist
    /\ UNCHANGED cvars

HistDetach == Run(CmdDetach, "ok", {}) /\ hist' = <<>> /\ UNCHANGED cvars

HistNewScan == Run(CmdNewScan, "ok", {}) /\ hist' = <<>> /\ UNCHANGED cvars

\* a pass of an attached Core: its filter and the memory it ran against
HistScan ==
    /\ IsSome(core.scanner)
    /\ Len(hist) < MaxPasses
    /\ \E f \in HistFilters, failed \in SUBSET maps :
           /\ Run(CmdScan(f), "ok", failed)
           /\ hist' = Append(hist, [f |-> f, mem |-> mem])
    /\ UNCHANGED cvars

HistMutate ==
    /\ \E a \in HistWritten, b \in ByteVals : Write(a, b)
    /\ UNCHANGED <<hist, cvars>>

HistNext == HistAttach \/ HistDetach \/ HistNewScan \/ HistScan \/ HistMutate

HistSpec == HistInit /\ [][HistNext]_vars

\* C3 (as claimed): a scan whose width differs from the width of the previous
\* pass, while region states exist, first drops all region states, so that it
\* is a fresh first scan: every region it reads ends with the hits a first scan
\* of the memory finds.
C3_WidthChangeResets ==
    [][\A f \in HistFilters :
          (/\ ScanStep(f)
           /\ hist' = Append(hist, [f |-> f, mem |-> mem])
           /\ Len(hist) > 0
           /\ Tracked(core) # {}
           /\ size_of(f.ty) # size_of(hist[Len(hist)].f.ty))
          => LET fresh == scan(new_scan(Unwrap(core.scanner)), maps,
                               last'.failed, mem, f.ty, f.filter)
             IN  \A r \in maps \ last'.failed :
                    /\ r \in Tracked(core')
                    /\ HitsOf(core', r) = fresh.results[r].hit_offsets]_vars

\* Did the value of type ty at offset o of region r satisfy the filter of pass
\* k, against the memory of that pass (and of the pass before it, for a filter
\* that compares with the previous value)?  A comparing filter in the first
\* pass has no previous value and nothing to satisfy.
Satisfied(k, r, o, ty) ==
    LET new_buf == read_memory_bytes(hist[k].mem, r.base_address, r.size)
        old_buf == IF k > 1
                   THEN read_memory_bytes(hist[k - 1].mem, r.base_address, r.size)
                   ELSE new_buf
    IN  /\ o + size_of(ty) <= r.size
        /\ \/ k = 1 /\ ~ValueOnly(hist[k].f.filter)
           \/ matches(hist[k].f.filter, read_from_buffer(new_buf, o, ty),
                      read_from_buffer(old_buf, o, ty), ty)

\* C8 (as claimed): every offset of a region's hit set is one at which the
\* value of the active width satisfied every filter passed to scan since the
\* last new_scan, each against the memory of its own pass.
C8_HitsSatisfyEveryFilter ==
    \A r \in Tracked(core) :
        IsSome(HitsOf(core, r)) =>
            \A o \in SeqSet(Unwrap(HitsOf(core, r))), k \in 1..Len(hist) :
                Satisfied(k, r, o, hist[Len(hist)].f.ty)

\* what results::<T>() is to return: for every region with hits and snapshot,
\* every hit offset o that leaves room for a T in the snapshot, as the pair
\* (base + o, the T read from the snapshot at o)
ExpectedResults(c, ty) ==
    UNION {{<<r.base_address + o,
              read_from_buffer(Unwrap(BufferOf(c, r)), o, ty)>> :
               o \in {x \in SeqSet(Unwrap(HitsOf(c, r))) :
                         x + size_of(ty) <= Len(Unwrap(BufferOf(c, r)))}} :
           r \in {x \in Tracked(c) :
                     IsSome(HitsOf(c, x)) /\ IsSome(BufferOf(c, x))}}

\* are both addresses inside one tracked region?
SameRegion(c, a, b) ==
    \E r \in Tracked(c) :
        /\ r.base_address <= a /\ a < r.base_address + r.size
        /\ r.base_address <= b /\ b < r.base_address + r.size

\* C25: get_results::<T>() returns exactly the expected pairs, once each, in
\* ascending address order within a region, whatever T and the order in
\* which the map yields its regions.
C25_ResultsConsistency ==
    IsSome(core.scanner)
    => \A ty \in MemTypes, order \in Orders(Tracked(core)) :
          LET res == Scanner_get_results(Unwrap(core.scanner), ty, order)
          IN  /\ SeqSet(res) = ExpectedResults(core, ty)
              /\ Len(res) = Cardinality(ExpectedResults(core, ty))
              /\ \A i, j \in 1..Len(res) :
                    (i < j /\ SameRegion(core, res[i][1], res[j][1]))
                    => res[i][1] < res[j][1]

\* C25's case: both regions hold hits and a snapshot, and one of them more
\* than one hit
C25_Witness ==
    /\ \A r \in maps :
          /\ r \in Tracked(core)
          /\ IsSome(HitsOf(core, r)) /\ IsSome(BufferOf(core, r))
          /\ Len(Unwrap(HitsOf(core, r))) > 0
    /\ \E r \in Tracked(core) : Len(Unwrap(HitsOf(core, r))) > 1

\* the hit set of a tracked region for values of type ty: the offsets of the
\* hit vector, and for an absent one every offset with room for a value in
\* the snapshot
HitSet(c, r, ty) ==
    IF IsSome(HitsOf(c, r)) THEN SeqSet(Unwrap(HitsOf(c, r)))
    ELSE IF IsSome(BufferOf(c, r))
         THEN {o \in 0..Len(Unwrap(BufferOf(c, r))) :
                 o + size_of(ty) <= Len(Unwrap(BufferOf(c, r)))}
         ELSE {}

\* C32 (as claimed): a scan(Unchanged) that directly follows a scan(Unchanged),
\* the memory the same and no read failing in either, leaves every region
\* with the hit set it had after the first of the two.
C32_UnchangedIdempotent ==
    [][\A f \in {g \in HistFilters : g.filter = Unchanged} :
          (/\ ScanStep(f)
           /\ last.c = "Scan" /\ last.failed = {} /\ last'.failed = {}
           /\ Len(hist) > 0
           /\ hist[Len(hist)].f = f
           /\ hist[Len(hist)].mem = mem)
          => \A r \in Tracked(core) :
                /\ r \in Tracked(core')
                /\ HitSet(core', r, f.ty) = HitSet(core, r, f.ty)]_vars

\* C36: is_new_scan is true iff no scan has been applied to the Scanner since
\* it was constructed or new_scan was last called, and then the region map is
\* empty.
C36_IsNewScan ==
    IsSome(core.scanner)
    => /\ Unwrap(core.scanner).is_new_scan <=> Len(hist) = 0
       /\ Unwrap(core.scanner).is_new_scan
          => Unwrap(core.scanner).results = <<>>

\* C36's case: the first scan after a new_scan has been applied, and
\* is_new_scan is false
C36_Witness ==
    /\ last.c = "Scan" /\ last.first
    /\ Len(hist) = 1
    /\ IsSome(core.scanner)
    /\ ~Unwrap(core.scanner).is_new_scan

\* Had every pass since the last new_scan the width W?
SingleWidth(W) ==
    /\ Len(hist) > 0
    /\ \A k \in 1..Len(hist) : size_of(hist[k].f.ty) = W

\* C26: after scans of a single width W, the present hit vector of every
\* tracked region is strictly ascending, and where the snapshot is present it
\* is no longer than the region and every hit offset o has o + W within it.
C26_SingleWidthHits ==
    \A ty \in MemTypes :
        SingleWidth(size_of(ty))
        => \A r \in Tracked(core) :
              IsSome(HitsOf(core, r))
              => LET hits == Unwrap(HitsOf(core, r))
                 IN  /\ \A i, j \in 1..Len(hits) : i < j => hits[i] < hits[j]
                     /\ IsSome(BufferOf(core, r))
                        => /\ Len(Unwrap(BufferOf(core, r))) <= r.size
                           /\ \A o \in SeqSet(hits) :
                                 o + size_of(ty)
                                   <= Len(Unwrap(BufferOf(core, r)))

\* C26's case: two passes of one width have left a region with several hits
\* and a snapshot
C26_Witness ==
    /\ Len(hist) = 2
    /\ \E ty \in MemTypes : SingleWidth(size_of(ty))
    /\ \E r \in Tracked(core) :
          /\ IsSome(HitsOf(core, r)) /\ IsSome(BufferOf(core, r))
          /\ Len(Unwrap(HitsOf(core, r))) > 1

\* ------------------------------------------------------------------------
\* MapSpec: scans of an attached Core while the process maps and unmaps
\* regions between the passes
\* ------------------------------------------------------------------------

\* What get_writable_regions can return in MapSpec: the two regions of Spec,
\* either of them alone, none, or the first one shrunk to two bytes.
MapChoices ==
    {Regions, {MemoryRegion(16, 3)}, {MemoryRegion(32, 2)}, {},
     {MemoryRegion(16, 2), MemoryRegion(32, 2)}}

\* The filters the front end sends in MapSpec.
MapFilters ==
    {GenericScanFilter("U8", f) : f \in {Exact(1), Exact(0), Unchanged}}

\* The addresses the process writes in MapSpec.
MapWritten == {16, 32}

MapInit ==
    /\ ControllerInit
    /\ mem = [a \in Addrs |-> IF a \in {16, 17} THEN 1 ELSE 0]
    /\ maps = Regions
    /\ core = Core_attach(Core_default, <<"Process", 7>>, "ok").core
    /\ last = Last(CmdAttach(<<"Process", 7>>), "Ok", {}, FALSE)
    /\ hist = <<>>

MapNewScan == Run(CmdNewScan, "ok", {}) /\ UNCHANGED <<hist, cvars>>

MapScan ==
    /\ \E f \in MapFilters, failed \in SUBSET maps :
           Run(CmdScan(f), "ok", failed)
    /\ UNCHANGED <<hist, cvars>>

\* the process maps or unmaps memory: the next enumeration differs
Remap ==
    /\ \E regions \in MapChoices \ {maps} : maps' = regions
    /\ last' = Last(Command("Remap", <<>>, NoFilter), "Ok", {}, FALSE)
    /\ UNCHANGED <<mem, core, hist, cvars>>

MapMutate ==
    /\ \E a \in MapWritten, b \in ByteVals : Write(a, b)
    /\ UNCHANGED <<hist, cvars>>

MapNext == MapNewScan \/ MapScan \/ Remap \/ MapMutate

MapSpec == MapInit /\ [][MapNext]_vars

\* C20 (as claimed): after a scan pass, every tracked region is one of the
\* regions the pass enumerated, so that a region that has disappeared adds
\* nothing to the count.
C20_VanishedRegionsDropped ==
    [][ScanPass
       => /\ Tracked(core') \subseteq maps
          /\ core'.scan_status =
                Done(Cardinality(UNION {
                    {<<r, i>> : i \in 1..Len(Unwrap(HitsOf(core', r)))} :
                       r \in {x \in Tracked(core') \cap maps :
                                 IsSome(HitsOf(core', x))}}))]_vars

\* C21: a scan pass with is_new_scan false adds no key to the region map and
\* reads only tracked regions; enumerated regions that are not tracked (one
\* with a tracked base and another size included) are ignored, and an empty
\* map stays empty.
C21_RefinementAddsNoRegion ==
    [][(ScanPass /\ ~IsFirst(core))
       => /\ Tracked(core') \subseteq Tracked(core)
          /\ ReadRegions(Unwrap(core.scanner), maps) \subseteq Tracked(core)
          /\ Tracked(core) = {} => Tracked(core') = {}]_vars

\* C21's case: a refinement pass has run while the enumeration held a region
\* with the base of a tracked region and another size
C21_Witness ==
    /\ last.c = "Scan" /\ ~last.first
    /\ MemoryRegion(16, 2) \in maps
    /\ MemoryRegion(16, 3) \in Tracked(core)
    /\ MemoryRegion(16, 2) \notin Tracked(core)

\* C22: a pass that finds a tracked region with a present, empty hit set does
\* not read the region and leaves its hit set empty and its snapshot absent.
C22_EmptyStaysEmpty ==
    [][(ScanPass /\ ~IsFirst(core))
       => \A r \in Tracked(core) :
             HitsOf(core, r) = Some(<<>>)
             => /\ r \notin ReadRegions(Unwrap(core.scanner), maps)
                /\ r \in Tracked(core')
                /\ HitsOf(core', r) = Some(<<>>)
                /\ IsNone(BufferOf(core', r))]_vars

\* C22's case: a refinement pass has run over an enumerated region whose hit
\* set was empty, at a moment when a first scan with the same filter would
\* have found a hit in it
C22_Witness ==
    /\ last.c = "Scan" /\ ~last.first /\ last.failed = {}
    /\ \E r \in Tracked(core) \cap maps :
          /\ HitsOf(core, r) = Some(<<>>)
          /\ \E f \in MapFilters :
                IsSome(FirstHits(RegionResults_new(r), BytesOf(r), f.ty, f.filter))
                /\ Len(Unwrap(FirstHits(RegionResults_new(r), BytesOf(r),
                                        f.ty, f.filter))) > 0

\* C23: new_scan removes every region state and sets is_new_scan, and changes
\* nothing else (the process handle stays); the scan after it is a first scan
\* over the regions enumerated then.
C23_NewScanResets ==
    [][/\ (last'.c = "NewScan" /\ IsSome(core.scanner))
          => core' = [core EXCEPT !.scanner =
                        Some([process |-> Unwrap(core.scanner).process,
                              results |-> <<>>,
                              is_new_scan |-> TRUE])]
       /\ (ScanPass /\ last.c = "NewScan")
          => Tracked(core') = maps \ last'.failed]_vars

\* C23's case: new_scan has emptied a map that held hits
C23_Witness ==
    /\ last.c = "NewScan"
    /\ core.scan_status[1] = "Done" /\ core.scan_status[2] > 0
    /\ Tracked(core) = {} /\ Unwrap(core.scanner).is_new_scan

\* C24: count_results is None exactly when no tracked region has a present
\* hit set, and else Some of the number of hits in the present hit sets.
C24_CountResults ==
    IsSome(core.scanner)
    => count_results(Unwrap(core.scanner)) =
         IF \A r \in Tracked(core) : IsNone(HitsOf(core, r))
         THEN None
         ELSE Some(HitCount(core))

\* C24's case: regions are tracked after a scan and none has a hit set
C24_Witness ==
    /\ last.c = "Scan"
    /\ Tracked(core) # {}
    /\ \A r \in Tracked(core) : IsNone(HitsOf(core, r))
    /\ count_results(Unwrap(core.scanner)) = None

\* C34: in a first pass the tracked regions are afterwards the enumerated
\* regions whose read succeeded, each with the bytes read as its snapshot
\* (none where its hits are empty); the command returns Ok and is_new_scan
\* is false.
C34_ReadFailureInFirstPass ==
    [][(ScanPass /\ IsFirst(core))
       => /\ Tracked(core') = maps \ last'.failed
          /\ \A r \in maps \ last'.failed :
                BufferOf(core', r) =
                    IF HitsOf(core', r) = Some(<<>>) THEN None
                    ELSE Some(BytesOf(r))
          /\ last'.res = "Ok"
          /\ ~Unwrap(core'.scanner).is_new_scan]_vars

\* C37 (as claimed): a Scan on an attached core that follows a Scan, with no
\* NewScan or Detach between them and the width the same, ends with a count
\* in Done(n) that is not above the count of the Scan before it.
C37_DoneNeverIncreases ==
    [][(ScanPass /\ ~IsFirst(core))
       => /\ core.scan_status[1] = "Done"
          /\ core'.scan_status[1] = "Done"
          /\ core'.scan_status[2] <= core.scan_status[2]]_vars

\* C34's case: a first pass in which one read failed and another succeeded
C34_Witness ==
    /\ last.c = "Scan" /\ last.first
    /\ last.failed \cap maps # {}
    /\ Tracked(core) # {}
    /\ Tracked(core) \cap last.failed = {}

\* ------------------------------------------------------------------------
\* CtlSpec: the CoreController, its command channel and its worker threads
\* ------------------------------------------------------------------------

\* the calls of start() modelled
MaxStarts == 2

\* the calls of send_command modelled (those made by stop() included)
MaxSends == 3

\* The commands the front end sends in CtlSpec.
CtlCommands ==
    {CmdAttach(<<"Process", 7>>), CmdAttach(<<"Window", "game">>), CmdDetach,
     CmdNewScan, CmdScan(GenericScanFilter("U8", Exact(1))), CmdStop}

\* What hoodmem::attach_external / attach_external_by_name can do for a
\* target: return Ok or Err, or panic (LinuxProcess::attach_by_proc_name is
\* unimplemented!()).
AttachOutcomes(target) ==
    IF Len(target) > 0 /\ target[1] = "Window"
    THEN {"ok", "err", "panic"}
    ELSE {"ok", "err"}

\* The regions whose read fails in a pass: every read succeeds in CtlSpec
\* (read failures are exercised in Spec).
CtlFailed == {{}}

\* does executing cmd on the Core panic, given the outcome of the platform call?
Panics(cmd, self, outcome) ==
    /\ cmd.c = "Attach"
    /\ self.attach_status = Detached
    /\ cmd.target[1] \in {"Process", "Window"}
    /\ outcome = "panic"

\* the program counters of a worker thread inside its loop
LoopPcs == {"recv", "lock", "exec", "scan", "apply"}

\* The Receiver of channel i lives in the closure of thread i.
ReceiverAlive(i) == threads[i].pc \in LoopPcs

CtlInit ==
    /\ ControllerInit
    /\ mem = [a \in Addrs |-> IF a \in {16, 17} THEN 1 ELSE 0]
    /\ maps = Regions
    /\ core = Core_default
    /\ last = Last(Command("Init", <<>>, NoFilter), "Ok", {}, FALSE)
    /\ hist = <<>>

\* CoreController::start: a new channel and a new thread; the previous Sender
\* and JoinHandle, if any, are dropped.
Start ==
    /\ caller.pc = "idle"
    /\ Len(chans) < MaxStarts
    /\ chans' = Append([i \in 1..Len(chans) |->
                          IF ctl.core_tx = Some(i)
                          THEN [chans[i] EXCEPT !.sender = FALSE]
                          ELSE chans[i]],
                       [queue |-> <<>>, sender |-> TRUE])
    /\ threads' = Append(threads,
                         [pc |-> "recv", command |-> None, stopped |-> FALSE,
                          died |-> 0, pending |-> None])
    /\ ctl' = [core_tx |-> Some(Len(chans) + 1),
               core_thread |-> Some(Len(chans) + 1),
               running |-> TRUE]
    /\ UNCHANGED <<mem, maps, core, last, hist, mutex, caller>>

\* may the front end call send_command once more (the model's bound)?
Room == caller.sent < MaxSends

\* CoreController::send_command: its result ...
send_result ==
    IF IsSome(ctl.core_tx) /\ ~ReceiverAlive(Unwrap(ctl.core_tx))
    THEN "Err" ELSE "Ok"

\* ... and the channels after it; n numbers the calls of send_command in the
\* order the front end makes them (history)
send_command(cmd) ==
    IF IsSome(ctl.core_tx) /\ ReceiverAlive(Unwrap(ctl.core_tx))
    THEN [chans EXCEPT ![Unwrap(ctl.core_tx)].queue =
                          Append(@, [cmd |-> cmd, n |-> caller.sent + 1])]
    ELSE chans

\* caller.acked: the numbers of the commands for which send_command has
\* returned Ok(())
Acked ==
    IF send_result = "Ok" THEN caller.acked \cup {caller.sent + 1} ELSE caller.acked

SendCommand ==
    /\ caller.pc = "idle"
    /\ Room
    /\ \E cmd \in CtlCommands : chans' = send_command(cmd)
    /\ caller' = [caller EXCEPT !.sent = @ + 1, !.acked = Acked]
    /\ UNCHANGED <<mem, maps, core, last, hist, ctl, threads, mutex>>

\* CoreController::stop up to core_thread.join(), or to its return when there
\* is nothing to join or the send failed
StopCall ==
    /\ caller.pc = "idle"
    /\ Room
    /\ IF send_result = "Ok"
       THEN /\ chans' = send_command(CmdStop)
            /\ ctl' = [ctl EXCEPT !.running = FALSE, !.core_thread = None]
            /\ caller' = IF IsSome(ctl.core_thread)
                         THEN [caller EXCEPT !.pc = "join",
                                             !.thread = Unwrap(ctl.core_thread),
                                             !.sent = @ + 1,
                                             !.acked = Acked]
                         ELSE [caller EXCEPT !.stop = Some("Ok"), !.sent = @ + 1,
                                             !.acked = Acked]
       ELSE /\ caller' = [caller EXCEPT !.stop = Some("Err"), !.sent = @ + 1]
            /\ UNCHANGED <<chans, ctl>>
    /\ UNCHANGED <<mem, maps, core, last, hist, threads, mutex>>

\* core_thread.join() returns once the thread has ended; a worker thread ends
\* only by panicking, and join then returns Err.
StopJoin ==
    /\ caller.pc = "join"
    /\ threads[caller.thread].pc \notin LoopPcs
    /\ caller' = [caller EXCEPT !.pc = "idle", !.thread = 0, !.stop = Some("Err")]
    /\ UNCHANGED <<mem, maps, core, last, hist, ctl, chans, threads, mutex>>

\* let command = rx.recv(): a command, or Err once the channel is empty and
\* its Sender dropped
WorkerRecv(i) ==
    /\ threads[i].pc = "recv"
    /\ \/ /\ Len(chans[i].queue) > 0
          /\ threads' = [threads EXCEPT
                           ![i].pc = "lock",
                           ![i].command = Some(<<"Ok", Head(chans[i].queue).cmd,
                                                 Head(chans[i].queue).n>>)]
          /\ chans' = [chans EXCEPT ![i].queue = Tail(@)]
       \/ /\ Len(chans[i].queue) = 0
          /\ ~chans[i].sender
          /\ threads' = [threads EXCEPT ![i].pc = "lock",
                                        ![i].command = Some(<<"Err">>)]
          /\ UNCHANGED chans
    /\ UNCHANGED <<mem, maps, core, last, hist, ctl, mutex, caller>>

\* a lock that is handed out whoever holds it
CanLock_Unguarded == TRUE

\* Mutex::lock returns once no thread holds the mutex ...
CanLock == mutex.holder = 0

\* ... with Err when a thread has panicked while holding it
LockResult == IF mutex.poisoned THEN "Err" ELSE "Ok"

\* core.lock() in the worker: on Err the command is dropped, on Ok the thread
\* holds the guard
WorkerLock(i) ==
    /\ threads[i].pc = "lock"
    /\ CanLock
    /\ IF LockResult = "Err"
       THEN /\ threads' = [threads EXCEPT ![i].pc = "recv", ![i].command = None]
            /\ UNCHANGED mutex
       ELSE /\ mutex' = [mutex EXCEPT !.holder = i]
            /\ threads' = [threads EXCEPT ![i].pc = "exec"]
    /\ UNCHANGED <<mem, maps, core, last, hist, ctl, chans, caller>>

\* the guard is dropped at the end of the loop body, and the thread is back
\* at rx.recv()
Released(i, cmd) ==
    /\ mutex' = [mutex EXCEPT !.holder = 0]
    /\ threads' = [threads EXCEPT ![i].pc = "recv",
                                  ![i].command = None,
                                  ![i].pending = None,
                                  ![i].stopped = @ \/ cmd.c = "Stop"]

\* the body of `if let Ok(mut core) = core.lock()`: execute the command, if
\* one was received, and release the mutex. A panic poisons the mutex and
\* ends the thread. A Scan of a Core that has a scanner is executed up to the
\* call of the scanner (scan_status is Scanning), continued by WorkerScan and
\* finished by WorkerApply.
\* hist records the numbers of the commands in the order their execution
\* starts.
WorkerExec(i) ==
    /\ threads[i].pc = "exec"
    /\ LET received == Unwrap(threads[i].command)
       IN  IF received[1] = "Err"
           THEN /\ threads' = [threads EXCEPT ![i].pc = "recv", ![i].command = None]
                /\ mutex' = [mutex EXCEPT !.holder = 0]
                /\ UNCHANGED <<core, last, hist>>
           ELSE /\ hist' = Append(hist, received[3])
                /\ IF received[2].c = "Scan" /\ IsSome(core.scanner)
                   THEN /\ core' = ScanStarted(core)
                        /\ threads' = [threads EXCEPT ![i].pc = "scan"]
                        /\ UNCHANGED <<last, mutex>>
                   ELSE \E outcome \in AttachOutcomes(received[2].target) :
                          /\ received[2].c = "Attach" \/ outcome = "ok"
                          /\ IF Panics(received[2], core, outcome)
                             THEN /\ threads' = [threads EXCEPT
                                                   ![i].pc = "panicked",
                                                   ![i].command = None,
                                                   ![i].died = Len(threads)]
                                  /\ mutex' = [holder |-> 0, poisoned |-> TRUE]
                                  /\ last' = Last(received[2], "Panic", {},
                                                  IsFirst(core))
                                  /\ UNCHANGED core
                             ELSE LET r == execute(received[2], core, outcome,
                                                   maps, {}, mem)
                                  IN  /\ core' = r.core
                                      /\ last' = Last(received[2], r.res, {},
                                                      IsFirst(core))
                                      /\ Released(i, received[2])
    /\ UNCHANGED <<mem, maps, ctl, chans, caller>>

\* The Core in the middle of Scanner::scan: the regions of `done` have been
\* through update_results, region r has its new hit_offsets and not yet its new
\* buffer (update_results assigns self.hit_offsets first and self.buffer last),
\* the other regions are as they were, and is_new_scan and scan_status are
\* still to be set.
HalfApplied(before, after, done, r) ==
    LET old == ResultsOf(before)
        new == ResultsOf(after)
    IN  [before EXCEPT !.scanner = Some([Unwrap(before.scanner) EXCEPT !.results =
           [q \in (DOMAIN old) \cup done \cup {r} |->
              IF q \in done THEN new[q]
              ELSE IF q = r
                   THEN [new[r] EXCEPT !.buffer = IF r \in DOMAIN old
                                                  THEN old[r].buffer
                                                  ELSE None]
                   ELSE old[q]]])]

\* the regions whose RegionResults the pass changes
Touched(before, after) ==
    {q \in DOMAIN ResultsOf(after) :
        q \notin DOMAIN ResultsOf(before) \/ ResultsOf(after)[q] # ResultsOf(before)[q]}

\* the scanner runs: it is part of the way through the regions, inside
\* update_results of one of them (pending holds what the command will have
\* done once it returns)
WorkerScan(i) ==
    /\ threads[i].pc = "scan"
    /\ LET cmd == Unwrap(threads[i].command)[2]
       IN  \E failed \in CtlFailed :
              LET r == execute(cmd, core, "ok", maps, failed, mem)
                  touched == Touched(core, r.core)
              IN  /\ threads' = [threads EXCEPT
                                   ![i].pc = "apply",
                                   ![i].pending =
                                      Some([core |-> r.core,
                                            last |-> Last(cmd, r.res, failed,
                                                          IsFirst(core))])]
                  /\ IF touched = {}
                     THEN core' = core
                     ELSE \E q \in touched, done \in SUBSET touched :
                             /\ q \notin done
                             /\ core' = HalfApplied(core, r.core, done, q)
    /\ UNCHANGED <<mem, maps, last, hist, ctl, chans, caller, mutex>>

\* the rest of a Scan: the scanner returns, the status becomes Done(n), the
\* guard is dropped
WorkerApply(i) ==
    /\ threads[i].pc = "apply"
    /\ LET p == Unwrap(threads[i].pending)
       IN  /\ core' = p.core
           /\ last' = p.last
           /\ Released(i, Unwrap(threads[i].command)[2])
    /\ UNCHANGED <<mem, maps, hist, ctl, chans, caller>>

Worker ==
    \E i \in 1..Len(threads) :
        \/ WorkerRecv(i) \/ WorkerLock(i) \/ WorkerExec(i)
        \/ WorkerScan(i) \/ WorkerApply(i)

Unknown == <<"Unknown">>

\* a bool as the front end receives it
BoolOf(b) == IF b THEN <<"true">> ELSE <<"false">>

\* The status reads of the controller.
Reads == {"get_attach_status", "get_scan_status", "check_attached"}

\* what a read returns once self.core.lock() has returned
ReadResult(call) ==
    CASE call = "get_attach_status" ->
           IF LockResult = "Ok" THEN core.attach_status ELSE Unknown
      [] call = "get_scan_status" ->
           IF LockResult = "Ok" THEN core.scan_status ELSE Unknown
      [] call = "check_attached" ->
           IF LockResult = "Ok"
           THEN BoolOf(core.attach_status[1] = "Attached")
           ELSE BoolOf(FALSE)

\* CoreController::get_first_results(MemType::U8, n) once self.core.lock()
\* has returned: the first n results of the scanner, the map iterated in some
\* order (the formatting of the values is modelled in ViewSpec)
CtlTake == 2

FirstResults ==
    IF LockResult = "Ok" /\ IsSome(core.scanner)
    THEN {LET all == Scanner_get_results(Unwrap(core.scanner), "U8", order)
          IN  SubSeq(all, 1, IF Len(all) < CtlTake THEN Len(all) ELSE CtlTake) :
          order \in Orders(Tracked(core))}
    ELSE {<<>>}

\* the front end calls get_attach_status, get_scan_status, check_attached or
\* get_first_results
ReadCall ==
    /\ caller.pc = "idle"
    /\ \E call \in Reads \cup {"get_first_results"} :
          caller' = [caller EXCEPT !.pc = "read", !.call = call, !.got = None]
    /\ UNCHANGED <<mem, maps, core, last, hist, ctl, chans, threads, mutex>>

\* ... which returns once it has had the lock: the guard is taken, the field
\* cloned and the guard dropped
ReadReturn ==
    /\ caller.pc = "read"
    /\ CanLock
    /\ \E got \in IF caller.call \in Reads
                    THEN {ReadResult(caller.call)} ELSE FirstResults :
          caller' = [caller EXCEPT !.pc = "idle", !.got = Some(got)]
    /\ UNCHANGED <<mem, maps, core, last, hist, ctl, chans, threads, mutex>>

CtlNext ==
    \/ Start \/ SendCommand \/ StopCall \/ StopJoin \/ Worker
    \/ ReadCall \/ ReadReturn

CtlSpec == CtlInit /\ [][CtlNext]_vars

\* C9 (as claimed): once a worker has processed Stop it has left its receive
\* loop (so that the join in stop() can return).
C9_StopEndsWorker ==
    \A i \in 1..Len(threads) : threads[i].stopped => threads[i].pc \notin LoopPcs

\* the threads that are executing a command
Executing ==
    {i \in 1..Len(threads) : threads[i].pc \in {"exec", "scan", "apply"}}

\* C15 (as claimed): the commands sent through the controller are executed one
\* at a time and in the order of their send_command calls.
C15_EnqueueOrder ==
    /\ Cardinality(Executing) <= 1
    /\ \A j, k \in 1..Len(hist) : j < k => hist[j] < hist[k]

\* C16 (as claimed): a get_scan_status() call made while the worker is in the
\* middle of a Scan of an attached Core does not have to wait for the scan.
C16_StatusReadDoesNotWait ==
    (/\ caller.pc = "read" /\ caller.call = "get_scan_status"
     /\ \E i \in 1..Len(threads) : threads[i].pc = "scan")
    => CanLock

\* the status a read is to report: the Core's, or Unknown (false for
\* check_attached)
RealStatus(call) ==
    CASE call = "get_attach_status" -> core.attach_status
      [] call = "get_scan_status" -> core.scan_status
      [] call = "check_attached" -> BoolOf(core.attach_status # Detached)

UnknownStatus(call) ==
    IF call = "check_attached" THEN BoolOf(FALSE) ELSE Unknown

\* has start() been called since every panic of a worker?
Restarted ==
    \A i \in 1..Len(threads) :
        threads[i].pc = "panicked" => Len(threads) > threads[i].died

\* C17 (as claimed): once a worker has panicked, a status read reports Unknown
\* (check_attached: false) until start() is called again, and the real status
\* after that start().
C17_RestartAfterPanic ==
    [][(/\ caller.pc = "read" /\ caller'.pc = "idle"
        /\ caller.call \in Reads
        /\ \E i \in 1..Len(threads) : threads[i].pc = "panicked")
       => caller'.got = Some(IF Restarted
                             THEN RealStatus(caller.call)
                             ELSE UnknownStatus(caller.call))]_vars

\* C18 (as claimed): an Attach that does not succeed leaves the Core as it was
\* and the worker in its loop, the mutex unpoisoned.
C18_AttachFailureNotFatal ==
    [][\A i \in 1..Len(threads) :
          (/\ threads[i].pc = "exec" /\ threads'[i].pc # "exec"
           /\ Unwrap(threads[i].command)[1] = "Ok"
           /\ Unwrap(threads[i].command)[2].c = "Attach"
           /\ last'.res # "Ok")
          => /\ core' = core
             /\ threads'[i].pc = "recv"
             /\ ~mutex'.poisoned]_vars

\* is every region's hit vector of the same pass as its snapshot? A region
\* that has hits has a snapshot, every hit offset lies inside it, and the
\* snapshot holds at the offset the value the pass was looking for (the scans
\* of CtlCommands are Exact(1) scans of U8).
Whole(c) ==
    \A r \in Tracked(c) :
        LET rr == ResultsOf(c)[r]
        IN  (IsSome(rr.hit_offsets) /\ Len(Unwrap(rr.hit_offsets)) > 0)
            => /\ IsSome(rr.buffer)
               /\ \A k \in 1..Len(Unwrap(rr.hit_offsets)) :
                     /\ Unwrap(rr.hit_offsets)[k] + 1 <= Len(Unwrap(rr.buffer))
                     /\ Unwrap(rr.buffer)[Unwrap(rr.hit_offsets)[k] + 1] = 1

\* C40: the Core changes only in steps of a worker thread that holds the
\* mutex, and a read of the controller (get_attach_status, get_scan_status,
\* check_attached, get_first_results) returns only while no thread is in the
\* middle of a command: the Core it reads has, in every region, hits and
\* snapshot of the same pass and no hit offset beyond the snapshot, and the
\* results it returns are hits of that snapshot.
C40_ReadsSeeWholeCommands ==
    [][/\ core' # core => \E i \in Executing : mutex.holder = i
       /\ (caller.pc = "read" /\ caller'.pc = "idle")
          => /\ Executing = {}
             /\ Whole(core)
             /\ caller.call = "get_first_results"
                => \A k \in 1..Len(Unwrap(caller'.got)) :
                      \E r \in Tracked(core) :
                         LET rr == ResultsOf(core)[r]
                             offset == Unwrap(caller'.got)[k][1] - r.base_address
                         IN  /\ IsSome(rr.buffer)
                             /\ offset \in 0..(Len(Unwrap(rr.buffer)) - 1)
                             /\ Unwrap(caller'.got)[k][2]
                                  = Unwrap(rr.buffer)[offset + 1]]_vars

\* C40 (witness): get_first_results is waiting for the lock while a worker is
\* in the middle of a scan, the Core holding hits without their snapshot.
C40_Witness ==
    /\ caller.pc = "read"
    /\ caller.call = "get_first_results"
    /\ \E i \in 1..Len(threads) : threads[i].pc = "apply" /\ mutex.holder = i
    /\ ~Whole(core)

\* CtlFairSpec: CtlSpec with the scheduling of the worker threads. A spawned
\* thread that can take a step takes one (rx.recv() returns when a command is
\* queued or the Sender is gone, the loop body runs to its end), and a thread
\* waiting in core.lock() gets the mutex if it is free again and again.
WorkerStep(i) ==
    /\ i \in 1..Len(threads)
    /\ WorkerRecv(i) \/ WorkerExec(i) \/ WorkerScan(i) \/ WorkerApply(i)

WorkerLocks(i) == i \in 1..Len(threads) /\ WorkerLock(i)

CtlFairSpec ==
    /\ CtlSpec
    /\ \A i \in 1..MaxStarts : WF_vars(WorkerStep(i)) /\ SF_vars(WorkerLocks(i))
    /\ WF_vars(ReadReturn)

NoPanic == \A i \in 1..Len(threads) : threads[i].pc # "panicked"

Executions(n) == Cardinality({k \in 1..Len(hist) : hist[k] = n})

\* C39: every command for which send_command has returned Ok is eventually
\* executed by a worker, and no command is executed twice, whether the
\* controller was never started, started, or started more than once, provided
\* no worker panics.
C39_OkSendsExecuted ==
    ([]NoPanic) =>
        /\ \A n \in 1..MaxSends : [](n \in caller.acked => <>(Executions(n) = 1))
        /\ [](\A n \in 1..MaxSends : Executions(n) <= 1)

\* ------------------------------------------------------------------------
\* MatchSpec: ScanFilter::matches on its own, over filters and values at the
\* edges of the unsigned types
\* ------------------------------------------------------------------------

\* the values of type ty that the inputs are drawn from: both ends of the range
EdgeValues(ty) == {0, 1, 2, Modulus(ty) - 2, Modulus(ty) - 1}

\* every variant of ScanFilter<T>, with its parameters drawn from V
AllFilters(V) ==
    {Increased, Decreased, Changed, Unchanged, UnknownFilter}
    \cup {Exact(v) : v \in V}
    \cup {Approximate(v, t) : v \in V, t \in V}
    \cup UNION {{IncreasedBy(d), DecreasedBy(d),
                 IncreasedByAtLeast(d), IncreasedByAtMost(d),
                 DecreasedByAtLeast(d), DecreasedByAtMost(d),
                 ChangedByAtLeast(d), ChangedByAtMost(d),
                 UnchangedByAtLeast(d), UnchangedByAtMost(d)} : d \in V}

\* a call that ended in a panic
Panic == <<"panic">>

\* Does a + or - that matches evaluates leave T's range?  Each arm lists the
\* operations the code reaches: the right operand of && only where the left
\* one holds, the branch of the if that the comparison picks.
ArithmeticFault(f, new_t, old_t, ty) ==
    LET Under(a, b) == a - b < 0
        Over(a, b) == a + b >= Modulus(ty)
        Diff(a, b) == IF a > b THEN Under(a, b) ELSE Under(b, a)
    IN  CASE f.k = "Approximate" -> Diff(new_t, f.a)
          [] f.k = "IncreasedBy" -> Over(old_t, f.a)
          [] f.k = "DecreasedBy" -> Under(old_t, f.a)
          [] f.k \in {"IncreasedByAtLeast", "IncreasedByAtMost"} ->
                 new_t >= old_t /\ Under(new_t, old_t)
          [] f.k \in {"DecreasedByAtLeast", "DecreasedByAtMost"} ->
                 new_t <= old_t /\ Under(old_t, new_t)
          [] f.k \in {"ChangedByAtLeast", "ChangedByAtMost",
                      "UnchangedByAtLeast", "UnchangedByAtMost"} ->
                 Diff(new_t, old_t)
          [] OTHER -> FALSE

\* The outcomes of a call of ScanFilter::matches.  An operation that leaves
\* T's range panics in a build with overflow checks and wraps in one without.
ScanFilter_matches(f, new_t, old_t, ty) ==
    {BoolOf(matches(f, new_t, old_t, ty))}
    \cup (IF ArithmeticFault(f, new_t, old_t, ty) THEN {Panic} ELSE {})

MatchInit ==
    /\ ControllerInit
    /\ mem = [a \in Addrs |-> 0]
    /\ maps = Regions
    /\ core = Core_default
    /\ hist = <<>>
    /\ \E ty \in MemTypes :
         \E f \in AllFilters(EdgeValues(ty)),
            new_t \in EdgeValues(ty), old_t \in EdgeValues(ty) :
             last = [c |-> "input", f |-> f, new_t |-> new_t,
                     old_t |-> old_t, ty |-> ty, res |-> <<>>]

\* filter.matches(&new_t, &old_t)
Match ==
    /\ last.c = "input"
    /\ \E res \in ScanFilter_matches(last.f, last.new_t, last.old_t, last.ty) :
           last' = [last EXCEPT !.c = "matches", !.res = res]
    /\ UNCHANGED <<mem, maps, core, hist, cvars>>

MatchNext == Match

MatchSpec == MatchInit /\ [][MatchNext]_vars

\* the filters of the semantics table
TableKinds ==
    {"Exact", "Approximate", "Increased", "Decreased", "IncreasedBy",
     "DecreasedBy", "IncreasedByAtLeast", "IncreasedByAtMost",
     "DecreasedByAtLeast", "DecreasedByAtMost", "Changed", "Unchanged",
     "ChangedByAtLeast", "ChangedByAtMost", "Unknown"}

\* |x - y| as max(x, y) - min(x, y), in the integers
Distance(x, y) == (IF x >= y THEN x ELSE y) - (IF x >= y THEN y ELSE x)

\* the predicate of the semantics table, in the integers
TablePredicate(f, new, old) ==
    CASE f.k = "Exact" -> new = f.a
      [] f.k = "Approximate" -> Distance(new, f.a) <= f.b
      [] f.k = "Increased" -> new > old
      [] f.k = "Decreased" -> new < old
      [] f.k = "IncreasedBy" -> new = old + f.a
      [] f.k = "DecreasedBy" -> new = old - f.a
      [] f.k = "IncreasedByAtLeast" -> new >= old /\ new - old >= f.a
      [] f.k = "IncreasedByAtMost" -> new >= old /\ new - old <= f.a
      [] f.k = "DecreasedByAtLeast" -> new <= old /\ old - new >= f.a
      [] f.k = "DecreasedByAtMost" -> new <= old /\ old - new <= f.a
      [] f.k = "Changed" -> new # old
      [] f.k = "Unchanged" -> new = old
      [] f.k = "ChangedByAtLeast" -> Distance(new, old) >= f.a
      [] f.k = "ChangedByAtMost" -> Distance(new, old) <= f.a
      [] f.k = "Unknown" -> TRUE

\* C27: for a filter of the semantics table and values for which no operation
\* of the evaluation leaves the type's range, matches returns the table's
\* predicate.
C27_MatchesTable ==
    (/\ last.c = "matches"
     /\ last.f.k \in TableKinds
     /\ ~ArithmeticFault(last.f, last.new_t, last.old_t, last.ty))
    => last.res = BoolOf(TablePredicate(last.f, last.new_t, last.old_t))

\* C27's case: a difference filter has been evaluated with new below old, and
\* has matched
C27_Witness ==
    /\ last.c = "matches"
    /\ last.f.k = "ChangedByAtLeast"
    /\ last.new_t < last.old_t
    /\ last.f.a > 0
    /\ last.res = BoolOf(TRUE)

\* C28 (as claimed): whatever the filter, new, old and the parameter, the
\* evaluation of matches on an unsigned type subtracts nothing below zero and
\* adds nothing beyond the type's maximum, and so neither wraps nor panics.
C28_NoArithmeticFault ==
    last.c = "matches"
    => /\ ~ArithmeticFault(last.f, last.new_t, last.old_t, last.ty)
       /\ last.res # Panic

\* ------------------------------------------------------------------------
\* ParseSpec: the scan value's way from text to filter (MemType::parse_value,
\* then GenericScanFilter::new)
\* ------------------------------------------------------------------------

Ok(x) == <<"Ok", x>>
Err == <<"Err">>
IsOk(r) == r[1] = "Ok"

\* enum MemType
AllMemTypes ==
    {"U8", "U16", "U32", "U64", "I8", "I16", "I32", "I64", "F32", "F64",
     "Unknown"}

\* enum ScanType
ScanTypes == {"Exact", "Unknown", "Increased", "Decreased"}

\* a MemValue: its variant and the value it carries
MemValue(variant, v) == [variant |-> variant, v |-> v]

DigitChars == <<"0", "1", "2", "3", "4", "5", "6", "7", "8", "9">>
IsDigit(ch) == \E i \in 1..10 : DigitChars[i] = ch
DigitVal(ch) == (CHOOSE i \in 1..10 : DigitChars[i] = ch) - 1

\* The digits of s read from the left onto acc, -1 for a character that is no
\* digit or a value above max.
RECURSIVE ParseDigits(_, _, _)
ParseDigits(s, acc, max) ==
    IF s = <<>> THEN acc
    ELSE IF ~IsDigit(Head(s)) THEN -1
    ELSE LET n == acc * 10 + DigitVal(Head(s))
         IN  IF n > max THEN -1 ELSE ParseDigits(Tail(s), n, max)

\* str::parse::<u8>: an optional + and then decimal digits, of a value up to
\* 255; the empty text, a lone sign and a - are errors
parse_u8(s) ==
    IF s = <<>> THEN Err
    ELSE IF Len(s) = 1 /\ Head(s) \in {"+", "-"} THEN Err
    ELSE LET n == ParseDigits(IF Head(s) = "+" THEN Tail(s) ELSE s, 0, 255)
         IN  IF n < 0 THEN Err ELSE Ok(n)

\* MemType::parse_value: every arm but Unknown is MemValue::U8(value.parse()?)
parse_value(self, value) ==
    IF self = "Unknown" THEN Err
    ELSE LET parsed == parse_u8(value)
         IN  IF IsOk(parsed) THEN Ok(MemValue("U8", parsed[2])) ELSE Err

\* new with a filter of the selected type built whatever is supplied
GenericScanFilter_new_Unchecked(scan_type, mem_type, mem_value) ==
    Ok(GenericScanFilter(mem_type,
                         CASE scan_type = "Exact" ->
                                Exact(IF IsSome(mem_value)
                                      THEN Unwrap(mem_value).v ELSE 0)
                           [] scan_type = "Unknown" -> UnknownFilter
                           [] scan_type = "Increased" -> Increased
                           [] scan_type = "Decreased" -> Decreased))

\* GenericScanFilter::new(scan_type, mem_type, mem_value)
GenericScanFilter_new(scan_type, mem_type, mem_value) ==
    CASE scan_type = "Exact" ->
           IF IsSome(mem_value)
           THEN IF Unwrap(mem_value).variant = "Null" THEN Err
                ELSE Ok(GenericScanFilter(Unwrap(mem_value).variant,
                                          Exact(Unwrap(mem_value).v)))
           ELSE Err
      [] scan_type = "Unknown" ->
           IF mem_type = "Unknown" THEN Err
           ELSE Ok(GenericScanFilter(mem_type, UnknownFilter))
      [] scan_type = "Increased" ->
           IF mem_type = "Unknown" THEN Err
           ELSE Ok(GenericScanFilter(mem_type, Increased))
      [] scan_type = "Decreased" ->
           IF mem_type = "Unknown" THEN Err
           ELSE Ok(GenericScanFilter(mem_type, Decreased))

\* The texts typed into the scan value field: "", "0", "7", "+7", "255",
\* "256", "300", "-1", "1.5", "abc".
Texts ==
    {<<>>, <<"0">>, <<"7">>, <<"+", "7">>, <<"2", "5", "5">>,
     <<"2", "5", "6">>, <<"3", "0", "0">>, <<"-", "1">>,
     <<"1", ".", "5">>, <<"a", "b", "c">>}

ParseInit ==
    /\ ControllerInit
    /\ mem = [a \in Addrs |-> 0]
    /\ maps = Regions
    /\ core = Core_default
    /\ hist = <<>>
    /\ \E scan_type \in ScanTypes, mem_type \in AllMemTypes, text \in Texts :
         last = [c |-> "input", scan_type |-> scan_type,
                 mem_type |-> mem_type, text |-> text,
                 value |-> Err, filter |-> Err]

\* mem_type.parse_value(&scan_text)
ParseValue ==
    /\ last.c = "input"
    /\ last' = [last EXCEPT !.c = "parse_value",
                            !.value = parse_value(last.mem_type, last.text)]
    /\ UNCHANGED <<mem, maps, core, hist, cvars>>

\* GenericScanFilter::new(scan_type, mem_type, mem_value), mem_value the
\* parsed value if there is one
NewFilter ==
    /\ last.c = "parse_value"
    /\ LET mem_value == IF IsOk(last.value) THEN Some(last.value[2]) ELSE None
       IN  last' = [last EXCEPT
                      !.c = "new",
                      !.filter = GenericScanFilter_new(last.scan_type,
                                                       last.mem_type, mem_value)]
    /\ UNCHANGED <<mem, maps, core, hist, cvars>>

\* the values a caller of GenericScanFilter::new can supply: none, Null, or a
\* value of one of the ten numeric variants
SuppliedValues ==
    {None, Some(MemValue("Null", 0))}
    \cup {Some(MemValue(ty, 1)) : ty \in AllMemTypes \ {"Unknown"}}

\* GenericScanFilter::new(scan_type, mem_type, mem_value) on a value that is
\* supplied as it is
NewFilterOf ==
    /\ last.c = "input"
    /\ \E mem_value \in SuppliedValues :
           last' = [last EXCEPT
                      !.c = "new_of",
                      !.value = mem_value,
                      !.filter = GenericScanFilter_new(last.scan_type,
                                                       last.mem_type, mem_value)]
    /\ UNCHANGED <<mem, maps, core, hist, cvars>>

ParseNext == ParseValue \/ NewFilter \/ NewFilterOf

ParseSpec == ParseInit /\ [][ParseNext]_vars

\* is s one or more digits?
AllDigits(s) == Len(s) > 0 /\ \A i \in 1..Len(s) : IsDigit(s[i])

\* the number an unsigned decimal text of the set denotes
Denoted(s) == ParseDigits(s, 0, 99999)

\* Does the text parse in the numeric type ty?  An integer type takes a sign
\* (its own: no - for an unsigned one) and digits of a value in its range, a
\* float type also a fraction.  The texts are too short to leave the range of
\* a type of 32 or 64 bits.
ParsesIn(ty, s) ==
    LET signed == s # <<>> /\ Head(s) \in {"+", "-"}
        body == IF signed THEN Tail(s) ELSE s
        neg == signed /\ Head(s) = "-"
        Within(lo, hi) ==
            /\ AllDigits(body)
            /\ IF neg THEN Denoted(body) <= lo ELSE Denoted(body) <= hi
        Fraction ==
            \E i \in 2..(Len(body) - 1) :
                /\ body[i] = "."
                /\ AllDigits(SubSeq(body, 1, i - 1))
                /\ AllDigits(SubSeq(body, i + 1, Len(body)))
    IN  CASE ty = "U8" -> ~neg /\ Within(0, 255)
          [] ty = "U16" -> ~neg /\ Within(0, 65535)
          [] ty \in {"U32", "U64"} -> ~neg /\ Within(0, 99999)
          [] ty = "I8" -> Within(128, 127)
          [] ty = "I16" -> Within(32768, 32767)
          [] ty \in {"I32", "I64"} -> Within(99999, 99999)
          [] ty \in {"F32", "F64"} -> Within(99999, 99999) \/ Fraction
          [] OTHER -> FALSE

\* C29 (as claimed): parse_value on MemType::Unknown is an error; on a text
\* that parses in the selected numeric type it returns the MemValue variant of
\* that type, and the Exact filter built from it has the selected type.
C29_ParseValueVariant ==
    last.c = "new"
    => /\ last.mem_type = "Unknown" => last.value = Err
       /\ ParsesIn(last.mem_type, last.text)
          => /\ IsOk(last.value)
             /\ last.value[2].variant = last.mem_type
             /\ last.scan_type = "Exact"
                => /\ IsOk(last.filter)
                   /\ last.filter[2].ty = last.mem_type

\* the mem_value that GenericScanFilter::new was called with
Supplied ==
    IF last.c = "new"
    THEN IF IsOk(last.value) THEN Some(last.value[2]) ELSE None
    ELSE last.value

\* C31: GenericScanFilter::new is an error when the scan type is Exact and no
\* value or a Null value is supplied, and when the scan type is Unknown,
\* Increased or Decreased and the memory type is Unknown; a filter that is
\* built has one of the ten numeric types.
C31_FilterConstructionErrors ==
    last.c \in {"new", "new_of"}
    => /\ (/\ last.scan_type = "Exact"
           /\ \/ IsNone(Supplied)
              \/ Unwrap(Supplied).variant = "Null")
          => last.filter = Err
       /\ (last.scan_type # "Exact" /\ last.mem_type = "Unknown")
          => last.filter = Err
       /\ IsOk(last.filter)
          => last.filter[2].ty \in AllMemTypes \ {"Unknown"}

\* C31's case: an Exact filter has been asked for with a Null value, and one
\* of the other scan types with the Unknown type, and neither was built
C31_Witness ==
    /\ last.c = "new_of"
    /\ last.filter = Err
    /\ \/ last.scan_type = "Exact" /\ last.value = Some(MemValue("Null", 0))
       \/ last.scan_type = "Increased" /\ last.mem_type = "Unknown"

\* ------------------------------------------------------------------------
\* ViewSpec: the front end reads the first results of a Core, in any of the
\* types it can select
\* ------------------------------------------------------------------------

\* the entries asked for at most
MaxTake == 2

\* The process of ViewSpec maps a region of nine bytes and one of two.
ViewRegions == {MemoryRegion(64, 9), MemoryRegion(32, 2)}

ViewAddrs ==
    UNION {{r.base_address + i : i \in 0..(r.size - 1)} : r \in ViewRegions}

\* The addresses the process writes in ViewSpec.
ViewWritten == {64, 69}

\* The filters the front end sends in ViewSpec.
ViewFilters == {GenericScanFilter("U8", f) : f \in {Exact(1), UnknownFilter}}

\* read_unaligned of a T at the offset: the size_of::<T>() bytes that make up
\* the value.  A value of four or eight bytes is kept as these bytes.
ObjectBytes(buffer, offset, ty) ==
    SubSeq(buffer, offset + 1, offset + size_of(ty))

\* RegionResults::get_results::<T>, the values as their bytes
RegionResults_get_results_raw(self, ty) ==
    IF IsSome(self.hit_offsets) /\ IsSome(self.buffer)
    THEN LET buffer == Unwrap(self.buffer)
             InBuffer(offset) == offset + size_of(ty) <= Len(buffer)
             offsets == SelectSeq(Unwrap(self.hit_offsets), InBuffer)
         IN  Some([i \in 1..Len(offsets) |->
                     <<offsets[i] + self.region.base_address,
                       ObjectBytes(buffer, offsets[i], ty)>>])
    ELSE None

RECURSIVE FlatRaw(_, _, _)
FlatRaw(results, ty, order) ==
    IF order = <<>> THEN <<>>
    ELSE LET got == RegionResults_get_results_raw(results[Head(order)], ty)
         IN  (IF IsSome(got) THEN Unwrap(got) ELSE <<>>)
             \o FlatRaw(results, ty, Tail(order))

\* Scanner::get_first_results::<T>(n): the flat_map of get_results, .take(n)
Scanner_get_first_results(self, ty, n, order) ==
    LET all == FlatRaw(self.results, ty, order)
    IN  SubSeq(all, 1, IF n < Len(all) THEN n ELSE Len(all))

\* Scanner::get_nth_result::<T>(n): the flat_map of get_results, .nth(n)
Scanner_get_nth_result(self, ty, n, order) ==
    LET all == FlatRaw(self.results, ty, order)
    IN  IF n < Len(all) THEN Some(all[n + 1]) ELSE None

\* The outcomes of Scanner::get_results_range::<T>(start_index, end_index):
\* the flat_map of get_results, .skip(start_index).take(end_index -
\* start_index + 1).  With end_index below start_index the subtraction leaves
\* usize: a build with overflow checks panics, one without wraps, to 0 where
\* end_index + 1 = start_index and else to a count above every length.
Scanner_get_results_range(self, ty, start_index, end_index, order) ==
    LET all == FlatRaw(self.results, ty, order)
        skipped == SubSeq(all, start_index + 1, Len(all))
        Take(count) ==
            SubSeq(skipped, 1, IF count < Len(skipped) THEN count
                               ELSE Len(skipped))
    IN  IF end_index >= start_index
        THEN {Take(end_index - start_index + 1)}
        ELSE {Panic,
              IF end_index + 1 = start_index THEN <<>> ELSE skipped}

\* format!("{:#?}", v) of a v: T given by its bytes on a little-endian host.
\* An integer prints in decimal, a negative one after a minus sign.  The text
\* of a float is left as what determines it, the type and the bits.
format_debug(bytes, ty) ==
    LET \* digits * m + carry on decimal digits, the least significant first
        RECURSIVE MulAdd(_, _, _)
        MulAdd(digits, m, carry) ==
            IF digits = <<>>
            THEN IF carry = 0 THEN <<>>
                 ELSE <<carry % 10>> \o MulAdd(<<>>, m, carry \div 10)
            ELSE LET x == Head(digits) * m + carry
                 IN  <<x % 10>> \o MulAdd(Tail(digits), m, x \div 10)
        \* the decimal digits of the unsigned number with these bytes
        RECURSIVE Magnitude(_)
        Magnitude(bs) ==
            IF bs = <<>> THEN <<>>
            ELSE MulAdd(Magnitude(Tail(bs)), 256, Head(bs))
        \* the digits as text, the most significant first
        Decimal(digits) ==
            IF digits = <<>> THEN <<"0">>
            ELSE [i \in 1..Len(digits) |->
                    DigitChars[digits[Len(digits) - i + 1] + 1]]
        RECURSIVE AddOne(_)
        AddOne(bs) ==
            IF bs = <<>> THEN <<>>
            ELSE IF Head(bs) = 255 THEN <<0>> \o AddOne(Tail(bs))
            ELSE <<Head(bs) + 1>> \o Tail(bs)
        \* the two's complement of the bytes
        Negated(bs) == AddOne([i \in 1..Len(bs) |-> 255 - bs[i]])
    IN  CASE ty \in {"U8", "U16", "U32", "U64"} -> Decimal(Magnitude(bytes))
          [] ty \in {"I8", "I16", "I32", "I64"} ->
               IF bytes[Len(bytes)] >= 128
               THEN <<"-">> \o Decimal(Magnitude(Negated(bytes)))
               ELSE Decimal(Magnitude(bytes))
          [] ty \in {"F32", "F64"} -> [float |-> ty, bits |-> bytes]

\* the T of scanner.get_first_results::<T>(n) in the arm of scan_type
ElementType(scan_type) == IF scan_type = "U64" THEN "U32" ELSE scan_type

\* CoreController::get_first_results(scan_type, n); m is the mutex of the core
CoreController_get_first_results(m, c, scan_type, n, order) ==
    IF m.poisoned \/ IsNone(c.scanner) \/ scan_type = "Unknown" THEN <<>>
    ELSE LET T == ElementType(scan_type)
             got == Scanner_get_first_results(Unwrap(c.scanner), T, n, order)
         IN  [i \in 1..Len(got) |->
                <<got[i][1], format_debug(got[i][2], T)>>]

ViewInit ==
    /\ ControllerInit
    /\ mem = [a \in ViewAddrs |->
                CASE a \in {64, 66, 68, 72, 32} -> 1
                  [] a = 67 -> 255
                  [] OTHER -> 0]
    /\ maps = ViewRegions
    /\ core = Core_default
    /\ last = Last(Command("Init", <<>>, NoFilter), "Ok", {}, FALSE)
    /\ hist = <<>>

ViewAttach ==
    Run(CmdAttach(<<"Process", 7>>), "ok", {}) /\ UNCHANGED <<hist, cvars>>

ViewDetach == Run(CmdDetach, "ok", {}) /\ UNCHANGED <<hist, cvars>>

ViewNewScan == Run(CmdNewScan, "ok", {}) /\ UNCHANGED <<hist, cvars>>

ViewScan ==
    /\ \E f \in ViewFilters : Run(CmdScan(f), "ok", {})
    /\ UNCHANGED <<hist, cvars>>

ViewMutate ==
    /\ \E a \in ViewWritten, b \in ByteVals : Write(a, b)
    /\ UNCHANGED <<hist, cvars>>

\* the front end calls get_first_results(t, n); the map yields its regions in
\* one of its orders
GetFirstResults ==
    /\ \E t \in AllMemTypes, n \in 0..MaxTake,
          order \in Orders(IF IsSome(core.scanner) THEN Tracked(core) ELSE {}) :
           last' = [c |-> "get_first_results", target |-> <<t, n>>,
                    res |-> CoreController_get_first_results(mutex, core, t,
                                                             n, order),
                    failed |-> {}, first |-> FALSE]
    /\ UNCHANGED <<mem, maps, core, hist, cvars>>

ViewNext ==
    \/ ViewAttach
    \/ ViewDetach
    \/ ViewNewScan
    \/ ViewScan
    \/ ViewMutate
    \/ GetFirstResults

ViewSpec == ViewInit /\ [][ViewNext]_vars

\* the entries of a view in type t: for every hit with room for a t in the
\* snapshot, the address and the text of the t read there
ExpectedView(c, t) ==
    UNION {{<<r.base_address + o,
              format_debug(ObjectBytes(Unwrap(BufferOf(c, r)), o, t), t)>> :
               o \in {x \in SeqSet(Unwrap(HitsOf(c, r))) :
                         x + size_of(t) <= Len(Unwrap(BufferOf(c, r)))}} :
           r \in {x \in Tracked(c) :
                     IsSome(HitsOf(c, x)) /\ IsSome(BufferOf(c, x))}}

\* C30 (as claimed): get_first_results(t, n) returns at most n entries, each
\* the address and the text of a result read from the snapshot at the width
\* and signedness of t (eight bytes for U64), and nothing when there is no
\* scanner or t is Unknown.
C30_FirstResultsOfType ==
    last.c = "get_first_results"
    => LET t == last.target[1]
           n == last.target[2]
       IN  /\ Len(last.res) <= n
           /\ (IsNone(core.scanner) \/ t = "Unknown") => last.res = <<>>
           /\ (IsSome(core.scanner) /\ t # "Unknown")
              => \A i \in 1..Len(last.res) :
                    last.res[i] \in ExpectedView(core, t)

\* the indexes asked for at most
MaxIndex == 3

\* the entries of all with the indexes lo..hi (from 0), none for hi < lo
Entries(all, lo, hi) ==
    IF hi < lo THEN <<>>
    ELSE SubSeq(all, lo + 1, IF hi + 1 < Len(all) THEN hi + 1 ELSE Len(all))

\* C35 (as claimed): on one scanner state and in one order of its map,
\* get_first_results(n) is the first min(n, total) entries of get_results(),
\* get_nth_result(i) is entry i or None for i >= total, and
\* get_results_range(lo, hi) returns the entries lo..hi, for hi < lo none,
\* without failing.
C35_Projections ==
    IsSome(core.scanner)
    => \A ty \in {"U8", "I16", "U32", "F64"}, order \in Orders(Tracked(core)) :
          LET self == Unwrap(core.scanner)
              all == FlatRaw(self.results, ty, order)
          IN  /\ \A n \in 0..MaxIndex :
                    /\ Scanner_get_first_results(self, ty, n, order)
                         = Entries(all, 0, n - 1)
                    /\ Scanner_get_nth_result(self, ty, n, order)
                         = IF n >= Len(all) THEN None ELSE Some(all[n + 1])
              /\ \A lo \in 0..MaxIndex, hi \in 0..MaxIndex :
                    Scanner_get_results_range(self, ty, lo, hi, order)
                      = {Entries(all, lo, hi)}

\* ------------------------------------------------------------------------
\* UpdateSpec: RegionResults::update_results on its own, over regions down to
\* a single byte
\* ------------------------------------------------------------------------

\* the passes over one region
MaxUpdates == 2

\* Does update_results evaluate self.region.size - size_of::<T>() below zero?
\* The first-scan branch computes the range in its Exact arm only, the other
\* branch before it looks at the hits.
Underflows(self, ty, filter) ==
    /\ self.region.size < size_of(ty)
    /\ IsSome(self.buffer) \/ filter.k = "Exact"

\* The outcomes of a call of update_results: where the subtraction leaves the
\* unsigned type, a build with overflow checks panics and one without goes
\* through a range that wraps, in which no offset passes the test against the
\* buffer's length.
RegionResults_update_results(self, region_buf, ty, filter) ==
    {Ok(update_results(self, region_buf, ty, filter))}
    \cup (IF Underflows(self, ty, filter) THEN {Panic} ELSE {})

UpdateInit ==
    /\ ControllerInit
    /\ mem = [a \in Addrs |-> 0]
    /\ maps = Regions
    /\ core = Core_default
    /\ hist = <<>>
    /\ \E size \in {1, 2, 3}, ty \in MemTypes :
         last = [c |-> "new", self |-> RegionResults_new(MemoryRegion(16, size)),
                 ty |-> ty, filter |-> UnknownFilter, passes |-> 0,
                 underflow |-> FALSE, res |-> Ok(0)]

\* results.update_results(region_memory, filter) on the RegionResults that the
\* pass before it left, with the region read whole
Update ==
    /\ last.c \in {"new", "update_results"}
    /\ last.passes < MaxUpdates
    /\ IsOk(last.res)
    /\ \E filter \in {Exact(1), UnknownFilter, Decreased, Unchanged},
          region_buf \in [1..last.self.region.size -> ByteVals] :
         \E out \in RegionResults_update_results(last.self, region_buf,
                                                 last.ty, filter) :
           last' = [last EXCEPT
                      !.c = "update_results",
                      !.self = IF IsOk(out) THEN out[2] ELSE last.self,
                      !.filter = filter,
                      !.passes = last.passes + 1,
                      !.underflow = Underflows(last.self, last.ty, filter),
                      !.res = IF IsOk(out) THEN Ok(0) ELSE Panic]
    /\ UNCHANGED <<mem, maps, core, hist, cvars>>

UpdateNext == Update

UpdateSpec == UpdateInit /\ [][UpdateNext]_vars

\* C38 (as claimed): on a region smaller than a value of the filter's type,
\* every pass, the first or a later one and with any filter, completes with
\* no subtraction below zero and no failure, and leaves the region no hit.
C38_SmallRegionNoHits ==
    (/\ last.c = "update_results"
     /\ last.self.region.size < size_of(last.ty))
    => /\ ~last.underflow
       /\ IsOk(last.res)
       /\ \/ IsNone(last.self.hit_offsets)
          \/ last.self.hit_offsets = Some(<<>>)

====
